---- MODULE Spec2Model ----
(***************************************************************************)
(* A state-machine model of the emon32 firmware drivers: the Cortex-M0+    *)
(* squaring routines, the watchdog driver, the external interrupt          *)
(* controller, and the SERCOM driver (UART with DMA, I2C master, SPI).     *)
(*                                                                         *)
(* 32-bit registers are pairs <<hi, lo>> of 16-bit halves, so that every   *)
(* intermediate value keeps its width (all arithmetic is modulo 2^32).     *)
(***************************************************************************)
EXTENDS Integers, Sequences, FiniteSets, TLC

VARIABLES
    \* ---- squaring routines
    sqIn,        \* r0 on entry: the 32-bit argument, <<hi, lo>>
    sqFn,        \* which routine has run: "none", "ssqr64", "usqr64"
    sqOut,       \* <<r0, r1>> on return: low word, high word
    \* ---- watchdog
    wdtPc,       \* main program: "boot", "configured", "running"
    wdtEnabled,  \* WDT->CTRL.ENABLE
    wdtEwIntEn,  \* WDT->INTENSET.EW and the NVIC line
    wdtCount,    \* the watchdog counter, in ticks since it was last cleared
    wdtEwFlag,   \* WDT->INTFLAG.EW
    wdtIrqPc,    \* irq_handler_wdt: "idle", "check", "bkpt"
    dbgPres,     \* DSU->STATUSB.DBGPRES
    cpuHalted,   \* the core is stopped at the breakpoint
    wdtReset,    \* the watchdog is resetting the system
    rcause,      \* PM->RCAUSE after the last reset: "POR" or "WDT"
    sinceFeed,   \* ticks since the main loop last fed (or enabled) the watchdog
    \* ---- I2C master (one bus instance)
    i2cOp,       \* primitive in progress: "none", "recovery", "activate",
                 \* "write", "read", "ack"
    i2cPc,       \* position inside the primitive
    i2cLastOp,   \* the primitive that returned last
    i2cRet,      \* its return status ("void" when it returns nothing)
    i2cEnabled,  \* I2CM.CTRLA.ENABLE
    i2cBusState, \* I2CM.STATUS.BUSSTATE: "unknown", "idle", "owner"
    sdaMux,      \* SDA pin: "periph" or "gpio"
    sclMux,      \* SCL pin: "periph" or "gpio"
    sclOut,      \* level driven on SCL as a GPIO output
    sdaDrive,    \* SDA as a GPIO: "in" (pulled up), "low", "high"
    holdK,       \* the stuck peripheral releases SDA after this many pulses
    pulses,      \* low-then-high SCL pulses generated by the recovery
    recI,        \* the recovery loop's index i
    sdaSample,   \* the recovery loop's last portPinValue(sda)
    intMB,       \* I2CM.INTFLAG.MB
    intSB,       \* I2CM.INTFLAG.SB
    stBusErr,    \* I2CM.STATUS.BUSERR or ARBLOST
    stArbLost,      \* STATUS.ARBLOST
    stRxNack,    \* I2CM.STATUS.RXNACK
    i2cSyncBusy, \* I2CM.SYNCBUSY.SYSOP
    i2cElapsed,  \* microseconds since the primitive was entered
    i2cPolled,   \* the wait loop has read its flag since the last microsecond
    i2cWrites,   \* writes to I2CM.ADDR or I2CM.DATA made by the current call
    i2cReads,    \* reads of I2CM.DATA made by the current call
    pData,       \* the byte i2cDataRead's pData points at: "old" or "new"
    \* ---- external interrupt controller, external interface and SPI
    strap,          \* level of the nDISABLE_EXT strap pin
    strapEdges,     \* transitions of the strap so far
    eicEnabled,     \* EIC->CTRL.ENABLE
    eicFlag0,       \* EIC->INTFLAG.EXTINT0
    eicInt14En,     \* EIC->INTENSET.EXTINT14 (radio interrupt line)
    extIntfEnabled, \* the driver's flag of the same name
    spiPinsMuxed,   \* MISO/MOSI/SCK are on the SPI peripheral function
    ssDir,          \* direction of the chip-select pin: "in" or "out"
    ssOut,          \* level driven on the chip-select pin
    extPc,          \* position of the main program in this driver
    extLast,        \* the routine of this driver that returned last
    nDisable,       \* eicConfigureRfmIrq's first sample of the strap
    irqPc,          \* irq_handler_eic: "idle", "apply", "clear"
    irqPin,         \* the handler's reading of the strap
    spiN,           \* spiSendBuffer: bytes still to send
    spiInBuf,       \* spiSendByte was called by spiSendBuffer
    spiDRE,         \* SPI.INTFLAG.DRE
    spiRXC,         \* SPI.INTFLAG.RXC
    spiShifting,    \* a byte written to SPI.DATA is being shifted out
    spiDataWrites,  \* writes to SPI.DATA so far
    spiRet,         \* what spiSendByte returned last: "zero", "data", "none"
    \* ---- UART transmit with DMA
    uartPc,      \* position of the main program in the UART driver
    uartInUse,   \* the driver's busy flag
    irqMasked,   \* PRIMASK: __disable_irq() is in effect
    descValid,   \* descriptor BTCTRL.VALID
    descCnt,     \* descriptor BTCNT
    descSrc,     \* descriptor SRCADDR: the string it points at
    chEnabled,   \* DMA channel enable bit
    dmaActive,   \* the engine holds a fetched descriptor
    wbCnt,       \* beats left in the engine's working copy
    wbSrc,       \* string of the engine's working copy
    wbIdx,       \* next byte of that string
    dmaTcmpl,    \* transfer-complete interrupt flag of the channel
    uDRE,        \* USART.INTFLAG.DRE
    wire,        \* bytes written to USART.DATA, in order
    bsLen,       \* uartPutsBlocking: length of its string, 0 outside it
    bsIdx,       \* uartPutsBlocking: characters passed to uartPutcBlocking
    \* ---- utility library calls
    uKind,       \* what the caller holds: "int", "text" or "float"
    uGen,        \* generation of the library linked: "new" or "rev"
    uBase,       \* the ITOA_BASE_t argument
    uVal,        \* the int32_t argument of utilItoa
    uF,          \* the float argument of utilFtoa
    uBuf,        \* the caller's text buffer
    uIn,         \* the text the caller put into the buffer
    uPhase,      \* "start", "formatted", "parsed" or "divided"
    uFn,         \* the function called last
    uRet,        \* count returned by utilItoa / utilFtoa
    uConvs,      \* the ConvInt_t results of the utilAtoi calls so far
    uFconvs,      \* the ConvFloat_t results of the utilAtof calls so far
    uQuot,        \* the quotient fastDiv10 returned
    \* ---- configuration record in the non-volatile store
    nvmKey,      \* the stored record's key, four bytes
    nvmCfg,      \* the stored record's configuration fields
    nvmCrc,      \* the stored record's crc16_ccitt
    nvmWritten,  \* how the stored record came about: "found", "stored", "damaged"
    cfgRam,      \* the in-memory configuration the loader returns
    cfgLoaded    \* configLoadFromNVM has run on the stored record as it is

sqrVars == <<sqIn, sqFn, sqOut>>
wdtVars == <<wdtPc, wdtEnabled, wdtEwIntEn, wdtCount, wdtEwFlag, wdtIrqPc,
             dbgPres, cpuHalted, wdtReset, rcause, sinceFeed>>

i2cVars == <<i2cOp, i2cPc, i2cLastOp, i2cRet, i2cEnabled, i2cBusState, sdaMux,
             sclMux, sclOut, sdaDrive, holdK, pulses, recI, sdaSample, intMB,
             intSB, stBusErr, stArbLost, stRxNack, i2cSyncBusy, i2cElapsed, i2cPolled,
             i2cWrites, i2cReads, pData>>

extVars == <<strap, strapEdges, eicEnabled, eicFlag0, eicInt14En, extIntfEnabled,
             spiPinsMuxed, ssDir, ssOut, extPc, extLast, nDisable, irqPc, irqPin,
             spiN, spiInBuf, spiDRE, spiRXC, spiShifting, spiDataWrites, spiRet>>

uartVars == <<uartPc, uartInUse, irqMasked, descValid, descCnt, descSrc,
              chEnabled, dmaActive, wbCnt, wbSrc, wbIdx, dmaTcmpl, uDRE, wire,
              bsLen, bsIdx>>

utilVars == <<uKind, uGen, uBase, uVal, uF, uBuf, uIn, uPhase, uFn, uRet,
              uConvs, uFconvs, uQuot>>

cfgVars == <<nvmKey, nvmCfg, nvmCrc, nvmWritten, cfgRam, cfgLoaded>>

vars == <<sqrVars, wdtVars, i2cVars, extVars, uartVars, utilVars, cfgVars>>

-----------------------------------------------------------------------------
(* 32-bit register arithmetic on <<hi, lo>> pairs                          *)

H16 == 65536
B8 == 256

Hi(w) == w[1]
Lo(w) == w[2]

\* 16 x 16 -> 32 bit product, by bytes so that no intermediate exceeds 2^31
Mul16(a, b) ==
    LET a0 == a % B8
        a1 == a \div B8
        b0 == b % B8
        b1 == b \div B8
        p0 == a0 * b0
        p1 == a1 * b0 + a0 * b1
        p2 == a1 * b1
        loSum == p0 + (p1 % B8) * B8
    IN  <<(p2 + (p1 \div B8) + (loSum \div H16)) % H16, loSum % H16>>

\* muls Rd, Rm : Rd := (Rd * Rm) mod 2^32
Muls(x, y) ==
    LET ll == Mul16(Lo(x), Lo(y))
        cross == (Lo(Mul16(Hi(x), Lo(y))) + Lo(Mul16(Lo(x), Hi(y)))) % H16
    IN  <<(Hi(ll) + cross) % H16, Lo(ll)>>

\* 2^n for the shift amounts used
RECURSIVE Pow2(_)
Pow2(n) == IF n = 0 THEN 1 ELSE 2 * Pow2(n - 1)

\* lsrs Rd, Rm, #n  (logical shift right, 0 < n <= 16)
Lsrs(w, n) ==
    IF n = 16 THEN <<0, Hi(w)>>
    ELSE <<Hi(w) \div Pow2(n),
           (Hi(w) % Pow2(n)) * Pow2(16 - n) + (Lo(w) \div Pow2(n))>>

\* asrs Rd, Rm, #16  (arithmetic shift right: the sign bit fills the top half)
Asrs16(w) == <<IF Hi(w) >= 32768 THEN 65535 ELSE 0, Hi(w)>>

\* lsls Rd, Rm, #n  (logical shift left, 16 <= n < 32)
Lsls(w, n) == <<(Lo(w) * Pow2(n - 16)) % H16, 0>>

\* uxth Rd, Rm  (zero-extend the low half-word)
Uxth(w) == <<0, Lo(w)>>

\* adds / adcs : 32-bit add with carry in, giving [sum, carry]
AddC(x, y, cin) ==
    LET lo == Lo(x) + Lo(y) + cin
        hi == Hi(x) + Hi(y) + (lo \div H16)
    IN  [sum |-> <<hi % H16, lo % H16>>, carry |-> hi \div H16]

-----------------------------------------------------------------------------
(* usqr64 / ssqr64, instruction by instruction                             *)

M_usqr64_NoCarry(x) ==
    LET r1a == Lsrs(x, 16)
        r0a == Uxth(x)
        r2b == Muls(r1a, r0a)
        r1b == Muls(r1a, r1a)
        r0b == Muls(r0a, r0a)
        r3  == Lsrs(r2b, 15)
        r2c == Lsls(r2b, 17)
        s0  == AddC(r0b, r2c, 0)
        s1  == AddC(r1b, r3, 0)
    IN  <<s0.sum, s1.sum>>

usqr64(x) ==
    LET r1a == Lsrs(x, 16)            \* lsrs r1, r0, #16
        r0a == Uxth(x)                \* uxth r0, r0
        r2a == r1a                    \* mov  r2, r1
        r2b == Muls(r2a, r0a)         \* muls r2, r0
        r1b == Muls(r1a, r1a)         \* muls r1, r1
        r0b == Muls(r0a, r0a)         \* muls r0, r0
        r3  == Lsrs(r2b, 15)          \* lsrs r3, r2, #15
        r2c == Lsls(r2b, 17)          \* lsls r2, r2, #17
        s0  == AddC(r0b, r2c, 0)      \* adds r0, r2
        s1  == AddC(r1b, r3, s0.carry) \* adcs r1, r3
    IN  <<s0.sum, s1.sum>>

ssqr64(x) ==
    LET r1a == Asrs16(x)              \* asrs r1, r0, #16
        r0a == Uxth(x)                \* uxth r0, r0
        r2a == r1a                    \* mov  r2, r1
        r2b == Muls(r2a, r0a)         \* muls r2, r0
        r1b == Muls(r1a, r1a)         \* muls r1, r1
        r0b == Muls(r0a, r0a)         \* muls r0, r0
        r3  == Lsrs(r2b, 15)          \* lsrs r3, r2, #15
        r2c == Lsls(r2b, 17)          \* lsls r2, r2, #17
        s0  == AddC(r0b, r2c, 0)      \* adds r0, r2
        s1  == AddC(r1b, r3, s0.carry) \* adcs r1, r3
    IN  <<s0.sum, s1.sum>>

-----------------------------------------------------------------------------
(* Reference: exact squaring by long multiplication on base-256 digits     *)

\* little-endian bytes of a 32-bit word
Bytes32(w) == <<Lo(w) % B8, Lo(w) \div B8, Hi(w) % B8, Hi(w) \div B8>>

\* little-endian bytes of the 64-bit value  lo + hi * 2^32
Bytes64(lo, hi) == Bytes32(lo) \o Bytes32(hi)

\* column k of the long multiplication a * a (digits indexed from 0)
SquareColumn(a, k) ==
    LET idx == {i \in 0..3 : (k - i) \in 0..3}
        RECURSIVE Sum(_)
        Sum(S) == IF S = {} THEN 0
                  ELSE LET i == CHOOSE j \in S : TRUE
                       IN  a[i + 1] * a[k - i + 1] + Sum(S \ {i})
    IN  Sum(idx)

\* the 8 bytes of a * a, carries propagated from the low column up
RECURSIVE SquareDigits(_, _, _)
SquareDigits(a, k, carry) ==
    IF k = 8 THEN <<>>
    ELSE LET t == SquareColumn(a, k) + carry
         IN  <<t % B8>> \o SquareDigits(a, k + 1, t \div B8)

ExactSquare(w) == SquareDigits(Bytes32(w), 0, 0)

\* magnitude of a word read as a signed 32-bit integer (2^31 for INT32_MIN)
IsNegative(w) == Hi(w) >= 32768
Magnitude(w) ==
    IF IsNegative(w)
    THEN <<(65535 - Hi(w) + (IF Lo(w) = 0 THEN 1 ELSE 0)) % H16, (H16 - Lo(w)) % H16>>
    ELSE w

-----------------------------------------------------------------------------
(* Inputs of the squaring routines: 16-bit halves at and around 0, the     *)
(* sign bit and the all-ones pattern.                                      *)

SqrSpan == 2

HalfVals == (0..SqrSpan) \cup ((32768 - SqrSpan)..(32768 + SqrSpan))
            \cup ((65535 - SqrSpan)..65535)

SqrInputs == HalfVals \X HalfVals

SqrIdle == sqFn = "none" /\ sqOut = <<<<0, 0>>, <<0, 0>>>>

\* the squaring routines at rest, for the specifications of the other drivers
SqrQuiet == sqIn = <<0, 0>> /\ SqrIdle

CallSsqr64 ==
    /\ sqFn = "none"
    /\ sqFn' = "ssqr64"
    /\ sqOut' = ssqr64(sqIn)
    /\ UNCHANGED <<sqIn, wdtVars, i2cVars, extVars, uartVars, utilVars, cfgVars>>

CallUsqr64 ==
    /\ sqFn = "none"
    /\ sqFn' = "usqr64"
    /\ sqOut' = usqr64(sqIn)
    /\ UNCHANGED <<sqIn, wdtVars, i2cVars, extVars, uartVars, utilVars, cfgVars>>

NextSqr == CallSsqr64 \/ CallUsqr64

-----------------------------------------------------------------------------
(* Watchdog driver.  Time is counted in ticks of the watchdog clock; the   *)
(* early-warning offset and the period are the values wdtSetup writes.     *)

WdtEwTicks == 10
WdtPerTicks == 20

WdtQuiet ==
    /\ wdtPc = "boot"
    /\ wdtEnabled = FALSE
    /\ wdtEwIntEn = FALSE
    /\ wdtCount = 0
    /\ wdtEwFlag = FALSE
    /\ wdtIrqPc = "idle"
    /\ dbgPres = FALSE
    /\ cpuHalted = FALSE
    /\ wdtReset = FALSE
    /\ rcause = "POR"
    /\ sinceFeed = 0

\* the main program runs only when no handler is active and the core runs
MainRuns == wdtIrqPc = "idle" /\ ~cpuHalted /\ ~wdtReset

\* wdtSetup: EW offset and period written, early-warning interrupt enabled
wdtSetup ==
    /\ MainRuns
    /\ wdtPc = "boot"
    /\ wdtPc' = "configured"
    /\ wdtEwIntEn' = TRUE
    /\ UNCHANGED <<wdtEnabled, wdtCount, wdtEwFlag, wdtIrqPc, dbgPres,
                   cpuHalted, wdtReset, rcause, sinceFeed>>
    /\ UNCHANGED <<sqrVars, i2cVars, extVars, uartVars, utilVars, cfgVars>>

\* wdtEnable: CTRL.ENABLE = 1, the counter starts from zero
wdtEnable ==
    /\ MainRuns
    /\ wdtPc = "configured"
    /\ wdtPc' = "running"
    /\ wdtEnabled' = TRUE
    /\ wdtCount' = 0
    /\ sinceFeed' = 0
    /\ UNCHANGED <<wdtEwIntEn, wdtEwFlag, wdtIrqPc, dbgPres, cpuHalted, wdtReset, rcause>>
    /\ UNCHANGED <<sqrVars, i2cVars, extVars, uartVars, utilVars, cfgVars>>

\* wdtFeed: the clear key restarts the counter
wdtFeed ==
    /\ MainRuns
    /\ wdtPc = "running"
    /\ wdtCount' = 0
    /\ sinceFeed' = 0
    /\ UNCHANGED <<wdtPc, wdtEnabled, wdtEwIntEn, wdtEwFlag, wdtIrqPc, dbgPres,
                   cpuHalted, wdtReset, rcause>>
    /\ UNCHANGED <<sqrVars, i2cVars, extVars, uartVars, utilVars, cfgVars>>

\* the early-warning interrupt is pending and will be taken
WdtIrqPending == wdtEwFlag /\ wdtEwIntEn /\ wdtIrqPc = "idle"

\* one tick of the watchdog clock.  The counter stands still while the core
\* is halted in debug mode; a pending interrupt is taken before the next tick.
WdtTick ==
    /\ wdtEnabled /\ ~cpuHalted /\ ~wdtReset
    /\ ~WdtIrqPending /\ wdtIrqPc = "idle"
    /\ wdtCount < WdtPerTicks
    /\ wdtCount' = wdtCount + 1
    /\ sinceFeed' = sinceFeed + 1
    /\ wdtEwFlag' = (wdtEwFlag \/ wdtCount' = WdtEwTicks)
    /\ wdtReset' = (wdtCount' = WdtPerTicks)
    /\ UNCHANGED <<wdtPc, wdtEnabled, wdtEwIntEn, wdtIrqPc, dbgPres, cpuHalted, rcause>>
    /\ UNCHANGED <<sqrVars, i2cVars, extVars, uartVars, utilVars, cfgVars>>

\* a mutant of the handler's first statement: it also writes the clear key
M_irq_handler_wdt_Feeds ==
    /\ WdtIrqPending /\ ~cpuHalted /\ ~wdtReset
    /\ wdtEwFlag' = FALSE
    /\ wdtCount' = 0
    /\ wdtIrqPc' = "check"
    /\ UNCHANGED <<wdtPc, wdtEnabled, wdtEwIntEn, dbgPres, cpuHalted, wdtReset,
                   rcause, sinceFeed>>
    /\ UNCHANGED <<sqrVars, i2cVars, extVars, uartVars, utilVars, cfgVars>>

\* irq_handler_wdt, first statement: WDT->INTFLAG.reg = WDT_INTFLAG_EW
irq_handler_wdt_Clear ==
    /\ WdtIrqPending /\ ~cpuHalted /\ ~wdtReset
    /\ wdtEwFlag' = FALSE
    /\ wdtIrqPc' = "check"
    /\ UNCHANGED <<wdtPc, wdtEnabled, wdtEwIntEn, wdtCount, dbgPres, cpuHalted,
                   wdtReset, rcause, sinceFeed>>
    /\ UNCHANGED <<sqrVars, i2cVars, extVars, uartVars, utilVars, cfgVars>>

\* a mutant of the handler's test: it stops at the breakpoint unconditionally
M_irq_handler_wdt_AlwaysHalts ==
    /\ wdtIrqPc = "check"
    /\ cpuHalted' = TRUE /\ wdtIrqPc' = "bkpt"
    /\ UNCHANGED <<wdtPc, wdtEnabled, wdtEwIntEn, wdtCount, wdtEwFlag, dbgPres,
                   wdtReset, rcause, sinceFeed>>
    /\ UNCHANGED <<sqrVars, i2cVars, extVars, uartVars, utilVars, cfgVars>>

\* irq_handler_wdt, second statement: if (DSU->STATUSB.bit.DBGPRES) bkpt
irq_handler_wdt_Check ==
    /\ wdtIrqPc = "check"
    /\ IF dbgPres
       THEN cpuHalted' = TRUE /\ wdtIrqPc' = "bkpt"
       ELSE cpuHalted' = FALSE /\ wdtIrqPc' = "idle"
    /\ UNCHANGED <<wdtPc, wdtEnabled, wdtEwIntEn, wdtCount, wdtEwFlag, dbgPres,
                   wdtReset, rcause, sinceFeed>>
    /\ UNCHANGED <<sqrVars, i2cVars, extVars, uartVars, utilVars, cfgVars>>

\* the developer attaches or detaches a debugger
DebuggerToggle ==
    /\ ~cpuHalted /\ ~wdtReset
    /\ dbgPres' = ~dbgPres
    /\ UNCHANGED <<wdtPc, wdtEnabled, wdtEwIntEn, wdtCount, wdtEwFlag, wdtIrqPc,
                   cpuHalted, wdtReset, rcause, sinceFeed>>
    /\ UNCHANGED <<sqrVars, i2cVars, extVars, uartVars, utilVars, cfgVars>>

\* the developer resumes from the breakpoint: the handler returns
DebuggerResume ==
    /\ cpuHalted /\ wdtIrqPc = "bkpt"
    /\ cpuHalted' = FALSE
    /\ wdtIrqPc' = "idle"
    /\ UNCHANGED <<wdtPc, wdtEnabled, wdtEwIntEn, wdtCount, wdtEwFlag, dbgPres,
                   wdtReset, rcause, sinceFeed>>
    /\ UNCHANGED <<sqrVars, i2cVars, extVars, uartVars, utilVars, cfgVars>>

\* the reset takes effect: every watchdog register returns to its reset
\* value and the program starts again, with the reset cause recorded
WdtRestart ==
    /\ wdtReset
    /\ wdtPc' = "boot"
    /\ wdtEnabled' = FALSE
    /\ wdtEwIntEn' = FALSE
    /\ wdtCount' = 0
    /\ wdtEwFlag' = FALSE
    /\ wdtIrqPc' = "idle"
    /\ cpuHalted' = FALSE
    /\ wdtReset' = FALSE
    /\ rcause' = "WDT"
    /\ sinceFeed' = 0
    /\ UNCHANGED dbgPres
    /\ UNCHANGED <<sqrVars, i2cVars, extVars, uartVars, utilVars, cfgVars>>

NextWdt ==
    \/ wdtSetup
    \/ wdtEnable
    \/ wdtFeed
    \/ WdtTick
    \/ irq_handler_wdt_Clear
    \/ irq_handler_wdt_Check
    \/ DebuggerToggle
    \/ DebuggerResume
    \/ WdtRestart

-----------------------------------------------------------------------------
(* I2C master.  One bus instance is modelled; the two instances share the  *)
(* code and no state.  A stuck peripheral holds SDA low until it has seen  *)
(* holdK clock pulses.                                                     *)

I2CM_ACTIVATE_TIMEOUT_US == 200
I2CM_DATA_TIMEOUT_US == 200
I2C_RECOVERY_PULSES == 9

\* the longest time a stuck peripheral is followed, and the most pulses it
\* may ask for
I2cTimeCap == 203
MaxHold == 11

I2cStatus == {"I2CM_SUCCESS", "I2CM_NOACK", "I2CM_TIMEOUT", "I2CM_ERROR",
              "I2CM_DISABLED"}

\* state before sercomSetup: the SERCOM is disabled, pins are not yet muxed
I2cQuiet ==
    /\ i2cOp = "none" /\ i2cPc = "idle" /\ i2cLastOp = "none" /\ i2cRet = "void"
    /\ i2cEnabled = FALSE /\ i2cBusState = "unknown"
    /\ sdaMux = "gpio" /\ sclMux = "gpio" /\ sclOut = 1 /\ sdaDrive = "in"
    /\ holdK = 0 /\ pulses = 0 /\ recI = 0 /\ sdaSample = 1
    /\ intMB = FALSE /\ intSB = FALSE /\ stBusErr = FALSE /\ stArbLost = FALSE /\ stRxNack = FALSE
    /\ i2cSyncBusy = FALSE /\ i2cElapsed = 0 /\ i2cPolled = TRUE
    /\ i2cWrites = 0 /\ i2cReads = 0 /\ pData = "old"

\* the variables a primitive's entry resets: the time base of its wait
I2cEnter(op, pc) ==
    /\ i2cOp = "none"
    /\ i2cOp' = op
    /\ i2cPc' = pc
    /\ i2cElapsed' = 0
    /\ i2cPolled' = TRUE
    /\ i2cWrites' = IF op \in {"activate", "write"} THEN 1 ELSE 0
    /\ i2cReads' = 0
    /\ pData' = "old"

I2cReturn(status) ==
    /\ i2cLastOp' = i2cOp
    /\ i2cOp' = "none"
    /\ i2cPc' = "idle"
    /\ i2cRet' = status
    /\ i2cElapsed' = 0
    /\ i2cPolled' = TRUE

\* level of the SDA line: open drain with a pull-up
SdaLine ==
    IF sdaDrive = "low" \/ pulses < holdK THEN 0 ELSE 1

I2cOthers == <<sqrVars, wdtVars, extVars, uartVars, utilVars, cfgVars>>

\* a mutant of i2cmCommon that leaves the bus state as the enable left it
M_i2cmCommon_NoIdle ==
    /\ i2cEnabled' = TRUE
    /\ i2cBusState' = "unknown"

\* i2cmCommon: BAUD, CTRLA (mode, SDAHOLD, ENABLE), bus state forced to idle
i2cmCommon ==
    /\ i2cEnabled' = TRUE
    /\ i2cBusState' = "idle"

\* sercomSetup, I2C part: pins to the peripheral function, then i2cmCommon
sercomSetupI2c ==
    /\ i2cOp = "none" /\ ~i2cEnabled
    /\ sdaMux' = "periph" /\ sclMux' = "periph"
    /\ i2cmCommon
    /\ i2cLastOp' = "setup"
    /\ UNCHANGED <<i2cOp, i2cPc, i2cRet, sclOut, sdaDrive, holdK, pulses, recI,
                   sdaSample, intMB, intSB, stBusErr, stArbLost, stRxNack, i2cSyncBusy,
                   i2cElapsed, i2cPolled>>
    /\ UNCHANGED <<i2cWrites, i2cReads, pData>>
    /\ UNCHANGED I2cOthers

\* ---- i2cBusRecovery

\* entry: CTRLA &= ~ENABLE.  The peripheral that holds SDA is chosen here.
i2cBusRecovery_Disable ==
    /\ I2cEnter("recovery", "muxclear")
    /\ i2cLastOp # "none"
    /\ \E k \in 0..MaxHold : holdK' = k
    /\ pulses' = 0 /\ recI' = 0 /\ sdaSample' = 1
    /\ i2cEnabled' = FALSE
    /\ i2cBusState' = "unknown"
    /\ intMB' = FALSE /\ intSB' = FALSE /\ stBusErr' = FALSE /\ stArbLost' = FALSE /\ stRxNack' = FALSE
    /\ UNCHANGED <<i2cLastOp, i2cRet, sdaMux, sclMux, sclOut, sdaDrive,
                   i2cSyncBusy>>
    /\ UNCHANGED I2cOthers

\* portPinMuxClear on both pins; SCL output driven high, SDA input with pull-up
i2cBusRecovery_Gpio ==
    /\ i2cOp = "recovery" /\ i2cPc = "muxclear"
    /\ sdaMux' = "gpio" /\ sclMux' = "gpio"
    /\ sclOut' = 1 /\ sdaDrive' = "in"
    /\ i2cPc' = "sample"
    /\ UNCHANGED <<i2cOp, i2cLastOp, i2cRet, i2cEnabled, i2cBusState, holdK,
                   pulses, recI, sdaSample, intMB, intSB, stBusErr, stArbLost, stRxNack,
                   i2cSyncBusy, i2cElapsed, i2cPolled>>
    /\ UNCHANGED <<i2cWrites, i2cReads, pData>>
    /\ UNCHANGED I2cOthers

\* a mutant of the loop head with the bound off by one
M_i2cBusRecovery_TenPulses ==
    /\ i2cOp = "recovery" /\ i2cPc = "sample"
    /\ IF recI < I2C_RECOVERY_PULSES + 1
       THEN /\ sdaSample' = SdaLine
            /\ i2cPc' = IF SdaLine = 1 THEN "stop_low" ELSE "pulse_low"
       ELSE /\ i2cPc' = "stop_low"
            /\ UNCHANGED sdaSample
    /\ UNCHANGED <<i2cOp, i2cLastOp, i2cRet, i2cEnabled, i2cBusState, sdaMux,
                   sclMux, sclOut, sdaDrive, holdK, pulses, recI, intMB, intSB,
                   stBusErr, stArbLost, stRxNack, i2cSyncBusy, i2cElapsed, i2cPolled>>
    /\ UNCHANGED <<i2cWrites, i2cReads, pData>>
    /\ UNCHANGED I2cOthers

\* loop head: for (i = 0; i < 9; i++) { if (portPinValue(sda)) break; ...
i2cBusRecovery_Sample ==
    /\ i2cOp = "recovery" /\ i2cPc = "sample"
    /\ IF recI < I2C_RECOVERY_PULSES
       THEN /\ sdaSample' = SdaLine
            /\ i2cPc' = IF SdaLine = 1 THEN "stop_low" ELSE "pulse_low"
       ELSE /\ i2cPc' = "stop_low"
            /\ UNCHANGED sdaSample
    /\ UNCHANGED <<i2cOp, i2cLastOp, i2cRet, i2cEnabled, i2cBusState, sdaMux,
                   sclMux, sclOut, sdaDrive, holdK, pulses, recI, intMB, intSB,
                   stBusErr, stArbLost, stRxNack, i2cSyncBusy, i2cElapsed, i2cPolled>>
    /\ UNCHANGED <<i2cWrites, i2cReads, pData>>
    /\ UNCHANGED I2cOthers

\* portPinDrv(scl, CLR); timerDelay_us(5)
i2cBusRecovery_PulseLow ==
    /\ i2cOp = "recovery" /\ i2cPc = "pulse_low"
    /\ sclOut' = 0
    /\ i2cPc' = "pulse_high"
    /\ UNCHANGED <<i2cOp, i2cLastOp, i2cRet, i2cEnabled, i2cBusState, sdaMux,
                   sclMux, sdaDrive, holdK, pulses, recI, sdaSample, intMB, intSB,
                   stBusErr, stArbLost, stRxNack, i2cSyncBusy, i2cElapsed, i2cPolled>>
    /\ UNCHANGED <<i2cWrites, i2cReads, pData>>
    /\ UNCHANGED I2cOthers

\* a mutant of the pulse's second half that leaves SCL low
M_i2cBusRecovery_PulseHigh_NoSet ==
    /\ i2cOp = "recovery" /\ i2cPc = "pulse_high"
    /\ pulses' = pulses + 1
    /\ recI' = recI + 1
    /\ i2cPc' = "sample"
    /\ UNCHANGED <<i2cOp, i2cLastOp, i2cRet, i2cEnabled, i2cBusState, sdaMux,
                   sclMux, sclOut, sdaDrive, holdK, sdaSample, intMB, intSB,
                   stBusErr, stArbLost, stRxNack, i2cSyncBusy, i2cElapsed,
                   i2cPolled>>
    /\ UNCHANGED <<i2cWrites, i2cReads, pData>>
    /\ UNCHANGED I2cOthers

\* portPinDrv(scl, SET); timerDelay_us(5); i++
i2cBusRecovery_PulseHigh ==
    /\ i2cOp = "recovery" /\ i2cPc = "pulse_high"
    /\ sclOut' = 1
    /\ pulses' = pulses + 1
    /\ recI' = recI + 1
    /\ i2cPc' = "sample"
    /\ UNCHANGED <<i2cOp, i2cLastOp, i2cRet, i2cEnabled, i2cBusState, sdaMux,
                   sclMux, sdaDrive, holdK, sdaSample, intMB, intSB, stBusErr, stArbLost,
                   stRxNack, i2cSyncBusy, i2cElapsed, i2cPolled>>
    /\ UNCHANGED <<i2cWrites, i2cReads, pData>>
    /\ UNCHANGED I2cOthers

\* STOP, first half: SDA made an output and driven low
i2cBusRecovery_StopLow ==
    /\ i2cOp = "recovery" /\ i2cPc = "stop_low"
    /\ sdaDrive' = "low"
    /\ i2cPc' = "stop_scl"
    /\ UNCHANGED <<i2cOp, i2cLastOp, i2cRet, i2cEnabled, i2cBusState, sdaMux,
                   sclMux, sclOut, holdK, pulses, recI, sdaSample, intMB, intSB,
                   stBusErr, stArbLost, stRxNack, i2cSyncBusy, i2cElapsed, i2cPolled>>
    /\ UNCHANGED <<i2cWrites, i2cReads, pData>>
    /\ UNCHANGED I2cOthers

\* STOP: portPinDrv(scl, SET)
i2cBusRecovery_StopScl ==
    /\ i2cOp = "recovery" /\ i2cPc = "stop_scl"
    /\ sclOut' = 1
    /\ i2cPc' = "stop_high"
    /\ UNCHANGED <<i2cOp, i2cLastOp, i2cRet, i2cEnabled, i2cBusState, sdaMux,
                   sclMux, sdaDrive, holdK, pulses, recI, sdaSample, intMB, intSB,
                   stBusErr, stArbLost, stRxNack, i2cSyncBusy, i2cElapsed, i2cPolled>>
    /\ UNCHANGED <<i2cWrites, i2cReads, pData>>
    /\ UNCHANGED I2cOthers

\* STOP, second half: SDA driven high while SCL is high
i2cBusRecovery_StopHigh ==
    /\ i2cOp = "recovery" /\ i2cPc = "stop_high"
    /\ sdaDrive' = "high"
    /\ i2cPc' = "remux"
    /\ UNCHANGED <<i2cOp, i2cLastOp, i2cRet, i2cEnabled, i2cBusState, sdaMux,
                   sclMux, sclOut, holdK, pulses, recI, sdaSample, intMB, intSB,
                   stBusErr, stArbLost, stRxNack, i2cSyncBusy, i2cElapsed, i2cPolled>>
    /\ UNCHANGED <<i2cWrites, i2cReads, pData>>
    /\ UNCHANGED I2cOthers

\* portPinMux on both pins
i2cBusRecovery_Remux ==
    /\ i2cOp = "recovery" /\ i2cPc = "remux"
    /\ sdaMux' = "periph" /\ sclMux' = "periph"
    /\ i2cPc' = "reinit"
    /\ UNCHANGED <<i2cOp, i2cLastOp, i2cRet, i2cEnabled, i2cBusState, sclOut,
                   sdaDrive, holdK, pulses, recI, sdaSample, intMB, intSB,
                   stBusErr, stArbLost, stRxNack, i2cSyncBusy, i2cElapsed, i2cPolled>>
    /\ UNCHANGED <<i2cWrites, i2cReads, pData>>
    /\ UNCHANGED I2cOthers

\* i2cmCommon(sercom); return
i2cBusRecovery_Reinit ==
    /\ i2cOp = "recovery" /\ i2cPc = "reinit"
    /\ i2cmCommon
    /\ I2cReturn("void")
    /\ UNCHANGED <<sdaMux, sclMux, sclOut, sdaDrive, holdK, pulses, recI,
                   sdaSample, intMB, intSB, stBusErr, stArbLost, stRxNack, i2cSyncBusy>>
    /\ UNCHANGED <<i2cWrites, i2cReads, pData>>
    /\ UNCHANGED I2cOthers

\* ---- the timed primitives

\* the recovery's bookkeeping is cleared when another primitive is entered
RecoveryForgotten ==
    /\ holdK' = 0 /\ pulses' = 0 /\ recI' = 0 /\ sdaSample' = 1

\* i2cActivate, up to the wait: t = timerMicros(); the ENABLE test; ADDR write
i2cActivate_Enter ==
    /\ i2cOp = "none"
    /\ RecoveryForgotten
    /\ IF ~i2cEnabled
       THEN /\ i2cOp' = "none" /\ i2cPc' = "idle"
            /\ i2cLastOp' = "activate"
            /\ i2cRet' = "I2CM_DISABLED"
            /\ i2cElapsed' = 0 /\ i2cPolled' = TRUE
            /\ i2cWrites' = 0 /\ i2cReads' = 0 /\ pData' = "old"
            /\ UNCHANGED <<intMB, intSB, stBusErr, stArbLost, stRxNack, i2cBusState>>
       ELSE /\ I2cEnter("activate", "wait")
            /\ intMB' = FALSE /\ intSB' = FALSE
            /\ stBusErr' = FALSE /\ stArbLost' = FALSE /\ stRxNack' = FALSE
            /\ i2cBusState' = IF i2cBusState = "unknown" THEN "unknown" ELSE "owner"
            /\ UNCHANGED <<i2cLastOp, i2cRet>>
    /\ UNCHANGED <<i2cEnabled, sdaMux, sclMux, sclOut, sdaDrive, i2cSyncBusy>>
    /\ UNCHANGED I2cOthers

M_I2cFlagStatus_NackFirst ==
    IF stRxNack THEN "I2CM_NOACK"
    ELSE IF stBusErr \/ stArbLost THEN "I2CM_ERROR"
    ELSE "I2CM_SUCCESS"

\* status after the awaited flag was seen: bus fault first, then NACK
I2cFlagStatus ==
    IF stBusErr \/ stArbLost THEN "I2CM_ERROR"
    ELSE IF stRxNack THEN "I2CM_NOACK"
    ELSE "I2CM_SUCCESS"

\* one pass of a wait loop that is bounded by the microsecond timer
TimedPoll(flagSeen, timeout, status) ==
    /\ IF flagSeen
       THEN I2cReturn(status)
       ELSE IF i2cElapsed > timeout
            THEN I2cReturn("I2CM_TIMEOUT")
            ELSE /\ i2cPolled' = TRUE
                 /\ UNCHANGED <<i2cOp, i2cPc, i2cLastOp, i2cRet, i2cElapsed>>

\* a mutant of the address-phase wait that disables the peripheral when it
\* times out
M_i2cActivate_Poll_DisablesOnTimeout ==
    /\ i2cOp = "activate" /\ i2cPc = "wait"
    /\ TimedPoll(intMB \/ intSB, I2CM_ACTIVATE_TIMEOUT_US, I2cFlagStatus)
    /\ i2cEnabled' = IF ~(intMB \/ intSB) /\ i2cElapsed > I2CM_ACTIVATE_TIMEOUT_US
                     THEN FALSE ELSE i2cEnabled
    /\ UNCHANGED <<i2cBusState, sdaMux, sclMux, sclOut, sdaDrive,
                   holdK, pulses, recI, sdaSample, intMB, intSB, stBusErr,
                   stArbLost, stRxNack, i2cSyncBusy>>
    /\ UNCHANGED <<i2cWrites, i2cReads, pData>>
    /\ UNCHANGED I2cOthers

\* i2cActivate: while (!(INTFLAG & (MB | SB))) { if (delta > 200) return TIMEOUT }
i2cActivate_Poll ==
    /\ i2cOp = "activate" /\ i2cPc = "wait"
    /\ TimedPoll(intMB \/ intSB, I2CM_ACTIVATE_TIMEOUT_US, I2cFlagStatus)
    /\ UNCHANGED <<i2cEnabled, i2cBusState, sdaMux, sclMux, sclOut, sdaDrive,
                   holdK, pulses, recI, sdaSample, intMB, intSB, stBusErr, stArbLost,
                   stRxNack, i2cSyncBusy>>
    /\ UNCHANGED <<i2cWrites, i2cReads, pData>>
    /\ UNCHANGED I2cOthers

\* i2cDataWrite, up to the wait: t = timerMicros(); DATA write
i2cDataWrite_Enter ==
    /\ I2cEnter("write", "wait")
    /\ i2cLastOp # "none"
    /\ RecoveryForgotten
    /\ intMB' = FALSE /\ intSB' = FALSE
    /\ stBusErr' = FALSE /\ stArbLost' = FALSE /\ stRxNack' = FALSE
    /\ UNCHANGED <<i2cLastOp, i2cRet, i2cEnabled, i2cBusState, sdaMux, sclMux,
                   sclOut, sdaDrive, i2cSyncBusy>>
    /\ UNCHANGED I2cOthers

\* a mutant of the data-phase wait without its timeout test
M_i2cDataWrite_NoTimeout ==
    /\ i2cOp = "write" /\ i2cPc = "wait"
    /\ IF intMB
       THEN I2cReturn(I2cFlagStatus)
       ELSE /\ i2cPolled' = TRUE
            /\ UNCHANGED <<i2cOp, i2cPc, i2cLastOp, i2cRet, i2cElapsed>>
    /\ UNCHANGED <<i2cEnabled, i2cBusState, sdaMux, sclMux, sclOut, sdaDrive,
                   holdK, pulses, recI, sdaSample, intMB, intSB, stBusErr, stArbLost,
                   stRxNack, i2cSyncBusy>>
    /\ UNCHANGED <<i2cWrites, i2cReads, pData>>
    /\ UNCHANGED I2cOthers

\* i2cDataWrite: while (!(INTFLAG & MB)) { if (delta > 200) return TIMEOUT }
i2cDataWrite_Poll ==
    /\ i2cOp = "write" /\ i2cPc = "wait"
    /\ TimedPoll(intMB, I2CM_DATA_TIMEOUT_US, I2cFlagStatus)
    /\ UNCHANGED <<i2cEnabled, i2cBusState, sdaMux, sclMux, sclOut, sdaDrive,
                   holdK, pulses, recI, sdaSample, intMB, intSB, stBusErr, stArbLost,
                   stRxNack, i2cSyncBusy>>
    /\ UNCHANGED <<i2cWrites, i2cReads, pData>>
    /\ UNCHANGED I2cOthers

\* i2cDataRead, up to the wait: t = timerMicros()
i2cDataRead_Enter ==
    /\ I2cEnter("read", "wait")
    /\ i2cLastOp # "none"
    /\ RecoveryForgotten
    /\ UNCHANGED <<i2cLastOp, i2cRet, i2cEnabled, i2cBusState, sdaMux, sclMux,
                   sclOut, sdaDrive, intMB, intSB, stBusErr, stArbLost, stRxNack,
                   i2cSyncBusy>>
    /\ UNCHANGED I2cOthers

\* a mutant of i2cDataRead that stores the data register before the
\* bus-fault test
M_i2cDataRead_Poll_StoresFirst ==
    /\ i2cOp = "read" /\ i2cPc = "wait"
    /\ TimedPoll(intMB \/ intSB, I2CM_DATA_TIMEOUT_US,
                 IF stBusErr \/ stArbLost THEN "I2CM_ERROR" ELSE "I2CM_SUCCESS")
    /\ intSB' = IF intMB \/ intSB THEN FALSE ELSE intSB
    /\ IF intMB \/ intSB
       THEN i2cReads' = i2cReads + 1 /\ pData' = "new"
       ELSE UNCHANGED <<i2cReads, pData>>
    /\ UNCHANGED <<i2cEnabled, i2cBusState, sdaMux, sclMux, sclOut, sdaDrive,
                   holdK, pulses, recI, sdaSample, intMB, stBusErr, stArbLost,
                   stRxNack, i2cSyncBusy, i2cWrites>>
    /\ UNCHANGED I2cOthers

\* i2cDataRead: the wait, the bus-fault test, then *pData = DATA (which
\* clears SB); a NACK is not looked at
i2cDataRead_Poll ==
    /\ i2cOp = "read" /\ i2cPc = "wait"
    /\ TimedPoll(intMB \/ intSB, I2CM_DATA_TIMEOUT_US,
                 IF stBusErr \/ stArbLost THEN "I2CM_ERROR" ELSE "I2CM_SUCCESS")
    /\ intSB' = IF (intMB \/ intSB) /\ ~(stBusErr \/ stArbLost) THEN FALSE ELSE intSB
    /\ IF (intMB \/ intSB) /\ ~(stBusErr \/ stArbLost)
       THEN i2cReads' = i2cReads + 1 /\ pData' = "new"
       ELSE UNCHANGED <<i2cReads, pData>>
    /\ UNCHANGED <<i2cEnabled, i2cBusState, sdaMux, sclMux, sclOut, sdaDrive,
                   holdK, pulses, recI, sdaSample, intMB, stBusErr, stArbLost, stRxNack,
                   i2cSyncBusy, i2cWrites>>
    /\ UNCHANGED I2cOthers

\* i2cAck, up to the wait: CTRLB = ACKACT | CMD, which starts a synchronisation
i2cAck_Enter ==
    /\ I2cEnter("ack", "wait")
    /\ i2cLastOp # "none"
    /\ RecoveryForgotten
    /\ i2cSyncBusy' = TRUE
    /\ intMB' = FALSE /\ intSB' = FALSE
    /\ UNCHANGED <<i2cLastOp, i2cRet, i2cEnabled, i2cBusState, sdaMux, sclMux,
                   sclOut, sdaDrive, stBusErr, stArbLost, stRxNack>>
    /\ UNCHANGED I2cOthers

\* i2cAck: while (SYNCBUSY & SYSOP) ;   -- no timer is read
i2cAck_Poll ==
    /\ i2cOp = "ack" /\ i2cPc = "wait"
    /\ IF ~i2cSyncBusy
       THEN I2cReturn("void")
       ELSE /\ i2cPolled' = TRUE
            /\ UNCHANGED <<i2cOp, i2cPc, i2cLastOp, i2cRet, i2cElapsed>>
    /\ UNCHANGED <<i2cEnabled, i2cBusState, sdaMux, sclMux, sclOut, sdaDrive,
                   holdK, pulses, recI, sdaSample, intMB, intSB, stBusErr, stArbLost,
                   stRxNack, i2cSyncBusy>>
    /\ UNCHANGED <<i2cWrites, i2cReads, pData>>
    /\ UNCHANGED I2cOthers

\* ---- the hardware

\* the SERCOM raises MB and/or SB, with the status bits of the transfer
I2cHwFlag ==
    /\ i2cOp \in {"activate", "write", "read"} /\ i2cPc = "wait"
    /\ i2cEnabled /\ i2cBusState = "owner"
    /\ ~intMB /\ ~intSB
    /\ \E mb \in BOOLEAN, sb \in BOOLEAN, err \in BOOLEAN, arb \in BOOLEAN,
          nack \in BOOLEAN :
        /\ mb \/ sb
        /\ intMB' = mb /\ intSB' = sb /\ stBusErr' = err /\ stArbLost' = arb /\ stRxNack' = nack
    /\ UNCHANGED <<i2cOp, i2cPc, i2cLastOp, i2cRet, i2cEnabled, i2cBusState,
                   sdaMux, sclMux, sclOut, sdaDrive, holdK, pulses, recI,
                   sdaSample, i2cSyncBusy, i2cElapsed, i2cPolled>>
    /\ UNCHANGED <<i2cWrites, i2cReads, pData>>
    /\ UNCHANGED I2cOthers

\* the SERCOM finishes the synchronisation of a CTRLB write
I2cHwSyncDone ==
    /\ i2cSyncBusy
    /\ i2cSyncBusy' = FALSE
    /\ UNCHANGED <<i2cOp, i2cPc, i2cLastOp, i2cRet, i2cEnabled, i2cBusState,
                   sdaMux, sclMux, sclOut, sdaDrive, holdK, pulses, recI,
                   sdaSample, intMB, intSB, stBusErr, stArbLost, stRxNack, i2cElapsed,
                   i2cPolled>>
    /\ UNCHANGED <<i2cWrites, i2cReads, pData>>
    /\ UNCHANGED I2cOthers

\* one microsecond passes during a wait; the loop reads its flag at least once
\* in every microsecond
I2cTick ==
    /\ i2cOp \in {"activate", "write", "read", "ack"} /\ i2cPc = "wait"
    /\ i2cPolled
    /\ i2cElapsed < I2cTimeCap
    /\ i2cElapsed' = i2cElapsed + 1
    /\ i2cPolled' = FALSE
    /\ UNCHANGED <<i2cOp, i2cPc, i2cLastOp, i2cRet, i2cEnabled, i2cBusState,
                   sdaMux, sclMux, sclOut, sdaDrive, holdK, pulses, recI,
                   sdaSample, intMB, intSB, stBusErr, stArbLost, stRxNack, i2cSyncBusy>>
    /\ UNCHANGED <<i2cWrites, i2cReads, pData>>
    /\ UNCHANGED I2cOthers

NextI2c ==
    \/ sercomSetupI2c
    \/ i2cBusRecovery_Disable
    \/ i2cBusRecovery_Gpio
    \/ i2cBusRecovery_Sample
    \/ i2cBusRecovery_PulseLow
    \/ i2cBusRecovery_PulseHigh
    \/ i2cBusRecovery_StopLow
    \/ i2cBusRecovery_StopScl
    \/ i2cBusRecovery_StopHigh
    \/ i2cBusRecovery_Remux
    \/ i2cBusRecovery_Reinit
    \/ i2cActivate_Enter
    \/ i2cActivate_Poll
    \/ i2cDataWrite_Enter
    \/ i2cDataWrite_Poll
    \/ i2cDataRead_Enter
    \/ i2cDataRead_Poll
    \/ i2cAck_Enter
    \/ i2cAck_Poll
    \/ I2cHwFlag
    \/ I2cHwSyncDone
    \/ I2cTick

-----------------------------------------------------------------------------
(* External interrupt controller, external-interface flag and SPI master.  *)
(* The EIC interrupt preempts the main program and runs to completion; a   *)
(* pending interrupt is taken before the main program's next step.         *)

MaxEdges == 2
MaxBuf == 2
MaxSpiWrites == 3

ExtOthers == <<sqrVars, wdtVars, i2cVars, uartVars, utilVars, cfgVars>>

\* state after eicSetup and sercomSetup: the EIC runs with EXTINT0 on both
\* edges, the flag is at its static initialiser, the SPI data register is empty
ExtFixed ==
    /\ strapEdges = 0
    /\ eicEnabled = TRUE /\ eicFlag0 = FALSE /\ eicInt14En = FALSE
    /\ extIntfEnabled = TRUE
    /\ spiPinsMuxed = FALSE /\ ssDir = "out" /\ ssOut = 1
    /\ extPc = "idle" /\ extLast = "none" /\ nDisable = 1
    /\ irqPc = "idle" /\ irqPin = 1
    /\ spiN = 0 /\ spiInBuf = FALSE
    /\ spiDRE = TRUE /\ spiRXC = FALSE /\ spiShifting = FALSE
    /\ spiDataWrites = 0 /\ spiRet = "none"

ExtQuiet == strap = 1 /\ ExtFixed

ExtStart == strap \in {0, 1} /\ ExtFixed

EicIrqPending == eicFlag0 /\ irqPc = "idle"

\* the main program executes: no handler is active and none is pending
ExtMainRuns == irqPc = "idle" /\ ~eicFlag0 /\ uartPc = "idle"

\* spiExtPinsSetup(enable)
spiExtPinsSetup(enable) ==
    IF enable
    THEN spiPinsMuxed' = TRUE /\ ssDir' = "out"
    ELSE spiPinsMuxed' = FALSE /\ ssDir' = "in"

\* sercomExtIntfDisable
sercomExtIntfDisable ==
    /\ extIntfEnabled' = FALSE
    /\ spiExtPinsSetup(FALSE)

\* sercomExtIntfEnable: the counterpart of sercomExtIntfDisable
sercomExtIntfEnable ==
    /\ extIntfEnabled' = TRUE
    /\ spiExtPinsSetup(TRUE)

\* the strap changes level; the EIC latches the edge only while it is enabled
StrapEdge ==
    /\ strapEdges < MaxEdges
    /\ strap' = 1 - strap
    /\ strapEdges' = strapEdges + 1
    /\ eicFlag0' = (eicFlag0 \/ eicEnabled)
    /\ UNCHANGED <<eicEnabled, eicInt14En, extIntfEnabled, spiPinsMuxed, ssDir,
                   ssOut, extPc, extLast, nDisable, irqPc, irqPin, spiN, spiInBuf,
                   spiDRE, spiRXC, spiShifting, spiDataWrites, spiRet>>
    /\ UNCHANGED ExtOthers

\* ---- irq_handler_eic, EXTINT0 part

\* if (INTFLAG & EXTINT0) { if (portPinValue(nDISABLE_EXT)) ...
irq_handler_eic_Read ==
    /\ EicIrqPending
    /\ irqPin' = strap
    /\ irqPc' = "apply"
    /\ UNCHANGED <<strap, strapEdges, eicEnabled, eicFlag0, eicInt14En,
                   extIntfEnabled, spiPinsMuxed, ssDir, ssOut, extPc, extLast,
                   nDisable, spiN, spiInBuf, spiDRE, spiRXC, spiShifting,
                   spiDataWrites, spiRet>>
    /\ UNCHANGED ExtOthers

\* ... sercomExtIntfEnable(); else sercomExtIntfDisable();
irq_handler_eic_Apply ==
    /\ irqPc = "apply"
    /\ IF irqPin = 1 THEN sercomExtIntfEnable ELSE sercomExtIntfDisable
    /\ irqPc' = "clear"
    /\ UNCHANGED <<strap, strapEdges, eicEnabled, eicFlag0, eicInt14En, ssOut,
                   extPc, extLast, nDisable, irqPin, spiN, spiInBuf, spiDRE,
                   spiRXC, spiShifting, spiDataWrites, spiRet>>
    /\ UNCHANGED ExtOthers

\* EIC->INTFLAG.reg = EIC_INTFLAG_EXTINT0
irq_handler_eic_Clear ==
    /\ irqPc = "clear"
    /\ eicFlag0' = FALSE
    /\ irqPc' = "idle"
    /\ UNCHANGED <<strap, strapEdges, eicEnabled, eicInt14En, extIntfEnabled,
                   spiPinsMuxed, ssDir, ssOut, extPc, extLast, nDisable, irqPin,
                   spiN, spiInBuf, spiDRE, spiRXC, spiShifting, spiDataWrites,
                   spiRet>>
    /\ UNCHANGED ExtOthers

\* ---- eicConfigureRfmIrq

\* bool nDisable = portPinValue(nDISABLE_EXT); portPinMux(RFM_IRQ)
eicConfigureRfmIrq_Sample ==
    /\ ExtMainRuns /\ extPc = "idle"
    /\ nDisable' = strap
    /\ extPc' = "eic_sampled"
    /\ UNCHANGED <<strap, strapEdges, eicEnabled, eicFlag0, eicInt14En,
                   extIntfEnabled, spiPinsMuxed, ssDir, ssOut, extLast, irqPc,
                   irqPin, spiN, spiInBuf, spiDRE, spiRXC, spiShifting,
                   spiDataWrites, spiRet>>
    /\ UNCHANGED ExtOthers

\* EIC->CTRL.reg = 0, synchronised
eicConfigureRfmIrq_Off ==
    /\ ExtMainRuns /\ extPc = "eic_sampled"
    /\ eicEnabled' = FALSE
    /\ extPc' = "eic_off"
    /\ UNCHANGED <<strap, strapEdges, eicFlag0, eicInt14En, extIntfEnabled,
                   spiPinsMuxed, ssDir, ssOut, extLast, nDisable, irqPc, irqPin,
                   spiN, spiInBuf, spiDRE, spiRXC, spiShifting, spiDataWrites,
                   spiRet>>
    /\ UNCHANGED ExtOthers

\* CONFIG[1], INTENSET = EXTINT14, CTRL = ENABLE, synchronised
eicConfigureRfmIrq_On ==
    /\ ExtMainRuns /\ extPc = "eic_off"
    /\ eicInt14En' = TRUE
    /\ eicEnabled' = TRUE
    /\ extPc' = "eic_on"
    /\ UNCHANGED <<strap, strapEdges, eicFlag0, extIntfEnabled, spiPinsMuxed,
                   ssDir, ssOut, extLast, nDisable, irqPc, irqPin, spiN, spiInBuf,
                   spiDRE, spiRXC, spiShifting, spiDataWrites, spiRet>>
    /\ UNCHANGED ExtOthers

\* if (nDisable != portPinValue(nDISABLE_EXT)) { if (nDisable) enable; else
\* { INTENCLR = EXTINT14; disable; } }
eicConfigureRfmIrq_Resample ==
    /\ ExtMainRuns /\ extPc = "eic_on"
    /\ IF nDisable # strap
       THEN IF nDisable = 1
            THEN sercomExtIntfEnable /\ UNCHANGED eicInt14En
            ELSE sercomExtIntfDisable /\ eicInt14En' = FALSE
       ELSE UNCHANGED <<extIntfEnabled, spiPinsMuxed, ssDir, eicInt14En>>
    /\ extPc' = "idle"
    /\ extLast' = "eicConfigureRfmIrq"
    /\ UNCHANGED <<strap, strapEdges, eicEnabled, eicFlag0, ssOut, nDisable,
                   irqPc, irqPin, spiN, spiInBuf, spiDRE, spiRXC, spiShifting,
                   spiDataWrites, spiRet>>
    /\ UNCHANGED ExtOthers

\* ---- SPI master

\* spiConfigureExt: the interface is enabled unless the DISABLE_EXT pin reads high
spiConfigureExt ==
    /\ ExtMainRuns /\ extPc = "idle"
    /\ \E pinValue \in {0, 1} :
          /\ extIntfEnabled' = (pinValue = 0)
          /\ spiExtPinsSetup(pinValue = 0)
    /\ extLast' = "spiConfigureExt"
    /\ UNCHANGED <<strap, strapEdges, eicEnabled, eicFlag0, eicInt14En, ssOut,
                   extPc, nDisable, irqPc, irqPin, spiN, spiInBuf, spiDRE, spiRXC,
                   spiShifting, spiDataWrites, spiRet>>
    /\ UNCHANGED ExtOthers

SpiPinCall(level, name) ==
    /\ ExtMainRuns /\ extPc = "idle"
    /\ ssOut' = IF extIntfEnabled THEN level ELSE ssOut
    /\ extLast' = name
    /\ UNCHANGED <<strap, strapEdges, eicEnabled, eicFlag0, eicInt14En,
                   extIntfEnabled, spiPinsMuxed, ssDir, extPc, nDisable, irqPc,
                   irqPin, spiN, spiInBuf, spiDRE, spiRXC, spiShifting,
                   spiDataWrites, spiRet>>
    /\ UNCHANGED ExtOthers

M_spiSelect_NoGuard ==
    /\ ExtMainRuns /\ extPc = "idle"
    /\ ssOut' = 0
    /\ extLast' = "spiSelect"
    /\ UNCHANGED <<strap, strapEdges, eicEnabled, eicFlag0, eicInt14En,
                   extIntfEnabled, spiPinsMuxed, ssDir, extPc, nDisable, irqPc,
                   irqPin, spiN, spiInBuf, spiDRE, spiRXC, spiShifting,
                   spiDataWrites, spiRet>>
    /\ UNCHANGED ExtOthers

\* spiSelect: if (!extIntfEnabled) return; drive nSS low
spiSelect == SpiPinCall(0, "spiSelect")

\* spiDeSelect: if (!extIntfEnabled) return; drive nSS high
spiDeSelect == SpiPinCall(1, "spiDeSelect")

\* entry of spiSendByte: if (!extIntfEnabled) return 0; the caller is the main
\* program (buffered = FALSE) or the loop of spiSendBuffer (buffered = TRUE)
SpiByteEntry(buffered) ==
    /\ spiInBuf' = buffered
    /\ IF extIntfEnabled
       THEN /\ extPc' = "sb_dre"
            /\ UNCHANGED <<spiRet, extLast>>
       ELSE /\ spiRet' = "zero"
            /\ extPc' = IF buffered THEN "buf_loop" ELSE "idle"
            /\ extLast' = IF buffered THEN extLast ELSE "spiSendByte"

\* return of spiSendByte to its caller
SpiByteReturn ==
    /\ extPc' = IF spiInBuf THEN "buf_loop" ELSE "idle"
    /\ extLast' = IF spiInBuf THEN extLast ELSE "spiSendByte"

spiSendByte_Enter ==
    /\ ExtMainRuns /\ extPc = "idle"
    /\ spiDataWrites < MaxSpiWrites
    /\ SpiByteEntry(FALSE)
    /\ UNCHANGED <<strap, strapEdges, eicEnabled, eicFlag0, eicInt14En,
                   extIntfEnabled, spiPinsMuxed, ssDir, ssOut, nDisable, irqPc,
                   irqPin, spiN, spiDRE, spiRXC, spiShifting, spiDataWrites>>
    /\ UNCHANGED ExtOthers

\* while (!DRE); INTFLAG = RXC; DATA = b
spiSendByte_WaitDre ==
    /\ ExtMainRuns /\ extPc = "sb_dre"
    /\ IF spiDRE
       THEN /\ spiRXC' = FALSE
            /\ spiDRE' = FALSE
            /\ spiShifting' = TRUE
            /\ spiDataWrites' = spiDataWrites + 1
            /\ extPc' = "sb_rxc"
       ELSE UNCHANGED <<spiRXC, spiDRE, spiShifting, spiDataWrites, extPc>>
    /\ UNCHANGED <<strap, strapEdges, eicEnabled, eicFlag0, eicInt14En,
                   extIntfEnabled, spiPinsMuxed, ssDir, ssOut, extLast, nDisable,
                   irqPc, irqPin, spiN, spiInBuf, spiRet>>
    /\ UNCHANGED ExtOthers

\* while (!RXC); return DATA (the read clears RXC)
spiSendByte_WaitRxc ==
    /\ ExtMainRuns /\ extPc = "sb_rxc"
    /\ IF spiRXC
       THEN /\ spiRXC' = FALSE
            /\ spiRet' = "data"
            /\ SpiByteReturn
       ELSE UNCHANGED <<spiRXC, spiRet, extPc, extLast>>
    /\ UNCHANGED <<strap, strapEdges, eicEnabled, eicFlag0, eicInt14En,
                   extIntfEnabled, spiPinsMuxed, ssDir, ssOut, nDisable, irqPc,
                   irqPin, spiN, spiInBuf, spiDRE, spiShifting, spiDataWrites>>
    /\ UNCHANGED ExtOthers

\* spiSendBuffer: if (!extIntfEnabled) return; otherwise start the loop
spiSendBuffer_Enter ==
    /\ ExtMainRuns /\ extPc = "idle"
    /\ \E n \in 0..MaxBuf :
          /\ spiDataWrites + n <= MaxSpiWrites
          /\ IF extIntfEnabled
             THEN spiN' = n /\ extPc' = "buf_loop" /\ UNCHANGED extLast
             ELSE UNCHANGED <<spiN, extPc>> /\ extLast' = "spiSendBuffer"
    /\ UNCHANGED <<strap, strapEdges, eicEnabled, eicFlag0, eicInt14En,
                   extIntfEnabled, spiPinsMuxed, ssDir, ssOut, nDisable, irqPc,
                   irqPin, spiInBuf, spiDRE, spiRXC, spiShifting, spiDataWrites,
                   spiRet>>
    /\ UNCHANGED ExtOthers

\* a mutant of spiSendBuffer's loop whose spiSendByte has no entry test
M_spiSendBuffer_Loop_NoGuard ==
    /\ ExtMainRuns /\ extPc = "buf_loop"
    /\ IF spiN = 0
       THEN /\ extPc' = "idle"
            /\ extLast' = "spiSendBuffer"
            /\ UNCHANGED <<spiN, spiInBuf, spiRet>>
       ELSE /\ spiN' = spiN - 1
            /\ spiInBuf' = TRUE
            /\ extPc' = "sb_dre"
            /\ UNCHANGED <<spiRet, extLast>>
    /\ UNCHANGED <<strap, strapEdges, eicEnabled, eicFlag0, eicInt14En,
                   extIntfEnabled, spiPinsMuxed, ssDir, ssOut, nDisable, irqPc,
                   irqPin, spiDRE, spiRXC, spiShifting, spiDataWrites>>
    /\ UNCHANGED ExtOthers

\* while (n--) spiSendByte(sercom, *pData++)
spiSendBuffer_Loop ==
    /\ ExtMainRuns /\ extPc = "buf_loop"
    /\ IF spiN = 0
       THEN /\ extPc' = "idle"
            /\ extLast' = "spiSendBuffer"
            /\ UNCHANGED <<spiN, spiInBuf, spiRet>>
       ELSE /\ spiN' = spiN - 1
            /\ SpiByteEntry(TRUE)
    /\ UNCHANGED <<strap, strapEdges, eicEnabled, eicFlag0, eicInt14En,
                   extIntfEnabled, spiPinsMuxed, ssDir, ssOut, nDisable, irqPc,
                   irqPin, spiDRE, spiRXC, spiShifting, spiDataWrites>>
    /\ UNCHANGED ExtOthers

\* the shifter takes the byte: the data register is empty again
SpiHwDre ==
    /\ ~spiDRE
    /\ spiDRE' = TRUE
    /\ UNCHANGED <<strap, strapEdges, eicEnabled, eicFlag0, eicInt14En,
                   extIntfEnabled, spiPinsMuxed, ssDir, ssOut, extPc, extLast,
                   nDisable, irqPc, irqPin, spiN, spiInBuf, spiRXC, spiShifting,
                   spiDataWrites, spiRet>>
    /\ UNCHANGED ExtOthers

\* the byte has been shifted out and the received byte is in the data register
SpiHwRxc ==
    /\ spiShifting /\ spiDRE
    /\ spiShifting' = FALSE
    /\ spiRXC' = TRUE
    /\ UNCHANGED <<strap, strapEdges, eicEnabled, eicFlag0, eicInt14En,
                   extIntfEnabled, spiPinsMuxed, ssDir, ssOut, extPc, extLast,
                   nDisable, irqPc, irqPin, spiN, spiInBuf, spiDRE,
                   spiDataWrites, spiRet>>
    /\ UNCHANGED ExtOthers

NextExt ==
    \/ StrapEdge
    \/ irq_handler_eic_Read
    \/ irq_handler_eic_Apply
    \/ irq_handler_eic_Clear
    \/ eicConfigureRfmIrq_Sample
    \/ eicConfigureRfmIrq_Off
    \/ eicConfigureRfmIrq_On
    \/ eicConfigureRfmIrq_Resample
    \/ spiConfigureExt
    \/ spiSelect
    \/ spiDeSelect
    \/ spiSendByte_Enter
    \/ spiSendByte_WaitDre
    \/ spiSendByte_WaitRxc
    \/ spiSendBuffer_Enter
    \/ spiSendBuffer_Loop
    \/ SpiHwDre
    \/ SpiHwRxc

-----------------------------------------------------------------------------
(* UART transmit: the blocking putc and the DMA-backed non-blocking puts.  *)
(* The DMA engine copies the descriptor when the channel starts and feeds  *)
(* one byte to USART.DATA per data-register-empty trigger.  Its completion *)
(* interrupt preempts the main program unless interrupts are masked.       *)

MaxLen == 2
MaxWire == 4
Msgs == {1, 2}

UartOthers == <<sqrVars, wdtVars, i2cVars, extVars, utilVars, cfgVars>>

\* state after uartSetup and uartConfigureDMA
UartQuiet ==
    /\ uartPc = "idle" /\ uartInUse = FALSE /\ irqMasked = FALSE
    /\ descValid = TRUE /\ descCnt = 0 /\ descSrc = 0
    /\ chEnabled = FALSE /\ dmaActive = FALSE
    /\ wbCnt = 0 /\ wbSrc = 0 /\ wbIdx = 0
    /\ dmaTcmpl = FALSE /\ uDRE = TRUE
    /\ wire = <<>>
    /\ bsLen = 0 /\ bsIdx = 0

DmacIrqPending == dmaTcmpl /\ ~irqMasked

\* the main program executes: the completion interrupt is not pending
UartMainRuns == ~DmacIrqPending /\ extPc = "idle"

\* bytes the engine still has to write
DmaBacklog == IF dmaActive THEN wbCnt ELSE 0

\* ---- uartPutcBlocking

uartPutcBlocking_Enter ==
    /\ UartMainRuns /\ uartPc = "idle"
    /\ Len(wire) + DmaBacklog < MaxWire
    /\ uartPc' = "putc_inuse"
    /\ UNCHANGED <<uartInUse, irqMasked, descValid, descCnt, descSrc, chEnabled,
                   dmaActive, wbCnt, wbSrc, wbIdx, dmaTcmpl, uDRE, wire>>
    /\ UNCHANGED <<bsLen, bsIdx>>
    /\ UNCHANGED UartOthers

\* while (uartInUse);
uartPutcBlocking_WaitInUse ==
    /\ UartMainRuns /\ uartPc = "putc_inuse"
    /\ uartPc' = IF uartInUse THEN uartPc ELSE "putc_dre"
    /\ UNCHANGED <<uartInUse, irqMasked, descValid, descCnt, descSrc, chEnabled,
                   dmaActive, wbCnt, wbSrc, wbIdx, dmaTcmpl, uDRE, wire>>
    /\ UNCHANGED <<bsLen, bsIdx>>
    /\ UNCHANGED UartOthers

\* while (!DRE); DATA = c; INTFLAG = DRE
uartPutcBlocking_WaitDre ==
    /\ UartMainRuns /\ uartPc = "putc_dre"
    /\ IF uDRE
       THEN /\ wire' = Append(wire, <<0, IF bsLen > 0 THEN bsIdx + 1 ELSE 0>>)
            /\ uDRE' = FALSE
            /\ uartPc' = IF bsLen > 0 THEN "puts_loop" ELSE "idle"
            /\ bsIdx' = IF bsLen > 0 THEN bsIdx + 1 ELSE bsIdx
       ELSE UNCHANGED <<wire, uDRE, uartPc, bsIdx>>
    /\ UNCHANGED <<uartInUse, irqMasked, descValid, descCnt, descSrc, chEnabled,
                   dmaActive, wbCnt, wbSrc, wbIdx, dmaTcmpl, bsLen>>
    /\ UNCHANGED UartOthers

\* ---- uartPutsBlocking

uartPutsBlocking_Enter ==
    /\ UartMainRuns /\ uartPc = "idle"
    /\ \E len \in 0..MaxLen :
          /\ Len(wire) + DmaBacklog + len <= MaxWire
          /\ bsLen' = len
    /\ bsIdx' = 0
    /\ uartPc' = "puts_loop"
    /\ UNCHANGED <<uartInUse, irqMasked, descValid, descCnt, descSrc, chEnabled,
                   dmaActive, wbCnt, wbSrc, wbIdx, dmaTcmpl, uDRE, wire>>
    /\ UNCHANGED UartOthers

\* while (*s) uartPutcBlocking(sercom, *s++);
uartPutsBlocking_Loop ==
    /\ UartMainRuns /\ uartPc = "puts_loop"
    /\ IF bsIdx < bsLen
       THEN /\ uartPc' = "putc_inuse"
            /\ UNCHANGED <<bsLen, bsIdx>>
       ELSE /\ uartPc' = "idle"
            /\ bsLen' = 0 /\ bsIdx' = 0
    /\ UNCHANGED <<uartInUse, irqMasked, descValid, descCnt, descSrc, chEnabled,
                   dmaActive, wbCnt, wbSrc, wbIdx, dmaTcmpl, uDRE, wire>>
    /\ UNCHANGED UartOthers

\* ---- uartPutsNonBlocking

\* BTCTRL |= VALID; BTCNT = len; SRCADDR = s + len
uartPutsNonBlocking_Desc ==
    /\ UartMainRuns /\ uartPc = "idle"
    /\ \E s \in Msgs, len \in 0..MaxLen :
          /\ Len(wire) + DmaBacklog + len <= MaxWire
          /\ descValid' = TRUE
          /\ descCnt' = len
          /\ descSrc' = s
    /\ uartPc' = "nb_cli"
    /\ UNCHANGED <<uartInUse, irqMasked, chEnabled, dmaActive, wbCnt, wbSrc,
                   wbIdx, dmaTcmpl, uDRE, wire>>
    /\ UNCHANGED <<bsLen, bsIdx>>
    /\ UNCHANGED UartOthers

\* __disable_irq()
uartPutsNonBlocking_Cli ==
    /\ UartMainRuns /\ uartPc = "nb_cli"
    /\ irqMasked' = TRUE
    /\ uartPc' = "nb_flag"
    /\ UNCHANGED <<uartInUse, descValid, descCnt, descSrc, chEnabled, dmaActive,
                   wbCnt, wbSrc, wbIdx, dmaTcmpl, uDRE, wire>>
    /\ UNCHANGED <<bsLen, bsIdx>>
    /\ UNCHANGED UartOthers

\* uartInUse = true
uartPutsNonBlocking_Flag ==
    /\ UartMainRuns /\ uartPc = "nb_flag"
    /\ uartInUse' = TRUE
    /\ uartPc' = "nb_enable"
    /\ UNCHANGED <<irqMasked, descValid, descCnt, descSrc, chEnabled, dmaActive,
                   wbCnt, wbSrc, wbIdx, dmaTcmpl, uDRE, wire>>
    /\ UNCHANGED <<bsLen, bsIdx>>
    /\ UNCHANGED UartOthers

\* dmacChannelEnable(dma_chan): sets the channel's enable bit
dmacChannelEnable ==
    /\ UartMainRuns /\ uartPc = "nb_enable"
    /\ chEnabled' = TRUE
    /\ uartPc' = "nb_sti"
    /\ UNCHANGED <<uartInUse, irqMasked, descValid, descCnt, descSrc, dmaActive,
                   wbCnt, wbSrc, wbIdx, dmaTcmpl, uDRE, wire>>
    /\ UNCHANGED <<bsLen, bsIdx>>
    /\ UNCHANGED UartOthers

\* __enable_irq()
uartPutsNonBlocking_Sti ==
    /\ UartMainRuns /\ uartPc = "nb_sti"
    /\ irqMasked' = FALSE
    /\ uartPc' = "idle"
    /\ UNCHANGED <<uartInUse, descValid, descCnt, descSrc, chEnabled, dmaActive,
                   wbCnt, wbSrc, wbIdx, dmaTcmpl, uDRE, wire>>
    /\ UNCHANGED <<bsLen, bsIdx>>
    /\ UNCHANGED UartOthers

\* ---- DMA channel and its completion interrupt

\* the enabled channel fetches its descriptor
DmaFetch ==
    /\ chEnabled /\ ~dmaActive /\ descValid
    /\ dmaActive' = TRUE
    /\ wbCnt' = descCnt
    /\ wbSrc' = descSrc
    /\ wbIdx' = 0
    /\ UNCHANGED <<uartPc, uartInUse, irqMasked, descValid, descCnt, descSrc,
                   chEnabled, dmaTcmpl, uDRE, wire>>
    /\ UNCHANGED <<bsLen, bsIdx>>
    /\ UNCHANGED UartOthers

\* one beat: a byte of the string goes to USART.DATA on the DRE trigger
DmaBeat ==
    /\ dmaActive /\ wbCnt > 0 /\ uDRE
    /\ wire' = Append(wire, <<wbSrc, wbIdx>>)
    /\ wbIdx' = wbIdx + 1
    /\ wbCnt' = wbCnt - 1
    /\ uDRE' = FALSE
    /\ UNCHANGED <<uartPc, uartInUse, irqMasked, descValid, descCnt, descSrc,
                   chEnabled, dmaActive, wbSrc, dmaTcmpl>>
    /\ UNCHANGED <<bsLen, bsIdx>>
    /\ UNCHANGED UartOthers

\* block complete, no next descriptor: the channel is disabled and the
\* transfer-complete flag is raised.  The engine clears the valid bit of the
\* descriptor it writes back; the descriptor the driver fills in is that one
\* or the base descriptor, which keeps its valid bit.
DmaComplete ==
    /\ dmaActive /\ wbCnt = 0
    /\ dmaActive' = FALSE
    /\ chEnabled' = FALSE
    /\ descValid' \in {FALSE, descValid}
    /\ dmaTcmpl' = TRUE
    /\ UNCHANGED <<uartPc, uartInUse, irqMasked, descCnt, descSrc, wbCnt, wbSrc,
                   wbIdx, uDRE, wire>>
    /\ UNCHANGED <<bsLen, bsIdx>>
    /\ UNCHANGED UartOthers

\* DMAC interrupt: acknowledge transfer-complete and run the registered
\* callback, uartInUseClear
irq_handler_dmac ==
    /\ DmacIrqPending
    /\ dmaTcmpl' = FALSE
    /\ uartInUse' = FALSE
    /\ UNCHANGED <<uartPc, irqMasked, descValid, descCnt, descSrc, chEnabled,
                   dmaActive, wbCnt, wbSrc, wbIdx, uDRE, wire>>
    /\ UNCHANGED <<bsLen, bsIdx>>
    /\ UNCHANGED UartOthers

\* the transmitter has taken the byte: the data register is empty again
UartHwDre ==
    /\ ~uDRE
    /\ uDRE' = TRUE
    /\ UNCHANGED <<uartPc, uartInUse, irqMasked, descValid, descCnt, descSrc,
                   chEnabled, dmaActive, wbCnt, wbSrc, wbIdx, dmaTcmpl, wire>>
    /\ UNCHANGED <<bsLen, bsIdx>>
    /\ UNCHANGED UartOthers

NextUart ==
    \/ uartPutcBlocking_Enter
    \/ uartPutcBlocking_WaitInUse
    \/ uartPutcBlocking_WaitDre
    \/ uartPutsBlocking_Enter
    \/ uartPutsBlocking_Loop
    \/ uartPutsNonBlocking_Desc
    \/ uartPutsNonBlocking_Cli
    \/ uartPutsNonBlocking_Flag
    \/ dmacChannelEnable
    \/ uartPutsNonBlocking_Sti
    \/ DmaFetch
    \/ DmaBeat
    \/ DmaComplete
    \/ irq_handler_dmac
    \/ UartHwDre

-----------------------------------------------------------------------------
(* Utility library: number/text conversion.  Text is a sequence of         *)
(* character codes without its terminating NUL; int32_t and uint32_t       *)
(* values are <<hi, lo>> bit patterns.  Two generations are modelled: the  *)
(* one that formats back-to-front with fastDiv10 and parses left-to-right, *)
(* and the one (suffix _rev) built on utilStrReverse.                      *)

ITOA_BASE10 == 10
ITOA_BASE16 == 16

\* a small non-negative integer as a 32-bit word
W(n) == <<n \div H16, n % H16>>

Add32(x, y) == AddC(x, y, 0).sum

\* two's complement negation, as the negate instruction computes it
Neg32(x) == AddC(<<65535 - Hi(x), 65535 - Lo(x)>>, <<0, 1>>, 0).sum

Sub32(x, y) == Add32(x, Neg32(y))

\* x << n for 0 < n < 16
Shl(x, n) ==
    <<(Hi(x) * Pow2(n) + (Lo(x) \div Pow2(16 - n))) % H16,
      (Lo(x) * Pow2(n)) % H16>>

Zero32 == <<0, 0>>

\* (char)x : the low byte of a word
CharOf(x) == Lo(x) % B8

isnumeric(c) == 48 <= c /\ c <= 57

utilStrlen(s) == Len(s)

\* utilStrReverse(pBuf, len) on the first len characters of s
utilStrReverse(s, len) ==
    [i \in 1..Len(s) |-> IF i <= len THEN s[len + 1 - i] ELSE s[i]]

\* a mutant of fastDiv10 whose series stops before the q >> 16 term
M_fastDiv10_NoWideTerm(n) ==
    LET q1 == Add32(Lsrs(n, 1), Lsrs(n, 2))
        q2 == Add32(q1, Lsrs(q1, 4))
        q3 == Add32(q2, Lsrs(q2, 8))
        q  == Lsrs(q3, 3)
        r  == Sub32(n, Muls(q, W(10)))
    IN  Add32(q, Lsrs(Add32(r, W(6)), 4))

M_fastDiv10_NoCorrection(n) ==
    LET q1 == Add32(Lsrs(n, 1), Lsrs(n, 2))
        q2 == Add32(q1, Lsrs(q1, 4))
        q3 == Add32(q2, Lsrs(q2, 8))
        q4 == Add32(q3, Lsrs(q3, 16))
    IN  Lsrs(q4, 3)

\* fastDiv10: shifts and adds, then a one-step correction
fastDiv10(n) ==
    LET q1 == Add32(Lsrs(n, 1), Lsrs(n, 2))
        q2 == Add32(q1, Lsrs(q1, 4))
        q3 == Add32(q2, Lsrs(q2, 8))
        q4 == Add32(q3, Lsrs(q3, 16))
        q  == Lsrs(q4, 3)
        r  == Sub32(n, Muls(q, W(10)))
    IN  Add32(q, Lsrs(Add32(r, W(6)), 4))

\* while (uval != 0) { q = fastDiv10(uval); *--p = '0' + (uval - q*10); uval = q; }
RECURSIVE ItoaDigits10(_)
ItoaDigits10(uval) ==
    IF uval = Zero32 THEN <<>>
    ELSE LET q == fastDiv10(uval)
         IN  ItoaDigits10(q) \o
             <<CharOf(Add32(W(48), Sub32(uval, Muls(q, W(10)))))>>

itohex == <<48, 49, 50, 51, 52, 53, 54, 55, 56, 57, 97, 98, 99, 100, 101, 102>>

\* while (val_u != 0) { *--p = itohex[val_u & 0xF]; val_u >>= 4; }
RECURSIVE ItoaDigits16(_)
ItoaDigits16(v) ==
    IF v = Zero32 THEN <<>>
    ELSE ItoaDigits16(Lsrs(v, 4)) \o <<itohex[(Lo(v) % 16) + 1]>>

\* utilItoa: the text written to pBuf and the count returned
utilItoa(val, base) ==
    IF val = Zero32 THEN [str |-> <<48>>, ret |-> 2]
    ELSE LET text == IF base = ITOA_BASE10
                     THEN IF IsNegative(val)
                          THEN <<45>> \o ItoaDigits10(Neg32(val))
                          ELSE ItoaDigits10(val)
                     ELSE ItoaDigits16(val)
         IN  [str |-> text, ret |-> Len(text) + 1]

\* val / 10u and val % 10u on a 32-bit word, by long division
UDiv10(w) == <<Hi(w) \div 10, (((Hi(w) % 10) * H16) + Lo(w)) \div 10>>
UMod10(w) == (((Hi(w) % 10) * H16) + Lo(w)) % 10

\* utilUtoa's loops: the digits least significant first
RECURSIVE UtoaDigits(_, _)
UtoaDigits(val, base) ==
    IF val = Zero32 THEN <<>>
    ELSE IF base = ITOA_BASE10
         THEN <<UMod10(val) + 48>> \o UtoaDigits(UDiv10(val), base)
         ELSE <<itohex[(Lo(val) % 16) + 1]>> \o UtoaDigits(Lsrs(val, 4), base)

\* utilUtoa: digits written in reverse, terminated, then utilStrReverse
utilUtoa(val, base) ==
    IF val = Zero32 THEN [str |-> <<48>>, ret |-> 2]
    ELSE LET d == UtoaDigits(val, base)
             charCnt == Len(d) + 1
         IN  [str |-> utilStrReverse(d, charCnt - 1), ret |-> charCnt]

\* a mutant of the reversal-based utilItoa that writes a negative value in
\* hexadecimal as a sign and a magnitude
M_utilItoa_rev_SignedHex(val, base) ==
    IF IsNegative(val)
    THEN LET u == utilUtoa(Neg32(val), base)
         IN  [str |-> <<45>> \o u.str, ret |-> u.ret + 1]
    ELSE utilUtoa(val, base)

\* utilItoa of the reversal-based generation
utilItoa_rev(val, base) ==
    IF base = ITOA_BASE16 THEN utilUtoa(val, base)
    ELSE IF IsNegative(val)
         THEN LET u == utilUtoa(Neg32(val), base)
              IN  [str |-> <<45>> \o u.str, ret |-> u.ret + 1]
         ELSE utilUtoa(val, base)

\* the text after an optional leading '-'
HasMinus(s) == Len(s) > 0 /\ s[1] = 45
AfterMinus(s) == IF HasMinus(s) THEN Tail(s) ELSE s

\* value of a hexadecimal digit in utilAtoi, or -1
HexDigit(c) ==
    IF 97 <= c /\ c <= 102 THEN c - 97 + 10
    ELSE IF 65 <= c /\ c <= 70 THEN c - 65 + 10
    ELSE IF isnumeric(c) THEN c - 48
    ELSE -1

\* the element of a one-element set: the loops below carry their running
\* values as computed words from one iteration to the next
The(S) == CHOOSE x \in S : TRUE

\* utilAtoi's loops, left to right from character i with the running result
RECURSIVE AtoiScan(_, _, _, _)
AtoiScan(s, i, base, result) ==
    IF i > Len(s) THEN [valid |-> TRUE, val |-> result]
    ELSE IF base = ITOA_BASE10
         THEN IF ~isnumeric(s[i]) THEN [valid |-> FALSE, val |-> Zero32]
              ELSE The({AtoiScan(s, i + 1, base, a) :
                           a \in {Add32(Muls(result, W(10)), W(s[i] - 48))}})
         ELSE IF HexDigit(s[i]) < 0 THEN [valid |-> FALSE, val |-> Zero32]
              ELSE The({AtoiScan(s, i + 1, base, a) :
                           a \in {Add32(Shl(result, 4), W(HexDigit(s[i])))}})

\* a mutant of utilAtoi that refuses numerals of more than nine digits
M_utilAtoi_RangeChecked(s, base) ==
    LET r == AtoiScan(AfterMinus(s), 1, base, Zero32)
    IN  IF ~r.valid \/ Len(AfterMinus(s)) > 9
        THEN [valid |-> FALSE, val |-> Zero32]
        ELSE [valid |-> TRUE,
              val |-> IF HasMinus(s) THEN Neg32(r.val) ELSE r.val]

M_utilAtoi_NoSign(s, base) == AtoiScan(AfterMinus(s), 1, base, Zero32)

\* utilAtoi: the ConvInt_t returned; the text is only read
utilAtoi(s, base) ==
    LET r == AtoiScan(AfterMinus(s), 1, base, Zero32)
    IN  IF ~r.valid THEN r
        ELSE [valid |-> TRUE,
              val |-> IF HasMinus(s) THEN Neg32(r.val) ELSE r.val]

\* value of a hexadecimal digit in the reversal-based utilAtoi, or -1
HexDigit_rev(c) ==
    IF 97 <= c /\ c <= 102 THEN c - 97 + 10
    ELSE IF isnumeric(c) THEN c - 48
    ELSE -1

\* the loops of the reversal-based utilAtoi over the reversed text r
RECURSIVE AtoiScan_rev(_, _, _, _, _)
AtoiScan_rev(r, i, base, val, mulCnt) ==
    IF i > Len(r) THEN [valid |-> TRUE, val |-> val]
    ELSE LET d == IF base = ITOA_BASE10
                  THEN (IF isnumeric(r[i]) THEN r[i] - 48 ELSE -1)
                  ELSE HexDigit_rev(r[i])
         IN  IF d < 0 THEN [valid |-> FALSE, val |-> val]
             ELSE The({AtoiScan_rev(r, i + 1, base, a[1], a[2]) :
                          a \in {<<Add32(val, Muls(W(d), mulCnt)),
                                   Muls(mulCnt, W(base))>>}})

\* utilAtoi of the reversal-based generation: the ConvInt_t returned and the
\* caller's buffer as the call leaves it
utilAtoi_rev(s, base) ==
    LET body == AfterMinus(s)
        rev  == utilStrReverse(body, utilStrlen(body))
        r    == AtoiScan_rev(rev, 1, base, Zero32, W(1))
    IN  [valid |-> r.valid,
         val |-> IF r.valid /\ base = ITOA_BASE10 /\ HasMinus(s)
                 THEN Neg32(r.val) ELSE r.val,
         buf |-> IF HasMinus(s) THEN <<45>> \o rev ELSE rev]

\* ---- float formatting.  A float is <<neg, m, e>>: (-1)^neg * m * 2^e with
\* a 24-bit significand m; the arithmetic is the library's (qfplib): products
\* rounded to nearest even, conversion to integer truncated and saturated.

FNeg(f) == f[1] = 1 /\ f[2] # 0
FAbs(f) == <<0, f[2], f[3]>>

INT32_MAX == 2147483647

\* qfp_float2int_z on a non-negative float
F2IntZ(f) ==
    LET m == f[2]
        e == f[3]
    IN  IF m = 0 THEN 0
        ELSE IF e = 0 THEN m
        ELSE IF e > 0
             THEN IF e >= 31 \/ m >= Pow2(31 - e) THEN INT32_MAX
                  ELSE m * Pow2(e)
             ELSE IF -e >= 25 THEN 0 ELSE m \div Pow2(-e)

\* number of low bits a product p < 2^31 loses when rounded to 24 bits
RECURSIVE DropBits(_, _)
DropBits(p, s) == IF s = 7 \/ p < Pow2(24 + s) THEN s ELSE DropBits(p, s + 1)

\* qfp_fmul(val, 100.0f) on a non-negative float
FMul100(f) ==
    LET p == f[2] * 100
        s == DropBits(p, 0)
        q == p \div Pow2(s)
        r == p % Pow2(s)
        up == s > 0 /\ (2 * r > Pow2(s) \/ (2 * r = Pow2(s) /\ q % 2 = 1))
    IN  <<0, IF up THEN q + 1 ELSE q, f[3] + s>>

\* utilFtoa: the text written to pBuf and the count returned
utilFtoa(val) ==
    LET mag      == FAbs(val)
        units    == W(F2IntZ(mag))
        val100   == W(F2IntZ(FMul100(mag)))
        units100 == Add32(Add32(Shl(units, 6), Shl(units, 5)), Shl(units, 2))
        decimals == Sub32(val100, units100)
        q        == fastDiv10(decimals)
        c2       == CharOf(Add32(W(48), Sub32(decimals, Muls(q, W(10)))))
        c1       == CharOf(Add32(W(48), q))
        int      == IF units = Zero32 THEN <<48>> ELSE ItoaDigits10(units)
        text     == (IF FNeg(val) THEN <<45>> ELSE <<>>) \o int \o <<46, c1, c2>>
    IN  [str |-> text, ret |-> Len(text) + 1]

\* while (0 != units) { *pBuf++ = (units % 10) + '0'; units = units / 10; }
RECURSIVE FtoaUnits_rev(_)
FtoaUnits_rev(units) ==
    IF units = 0 THEN <<>>
    ELSE <<(units % 10) + 48>> \o FtoaUnits_rev(units \div 10)

\* utilFtoa of the reversal-based generation
utilFtoa_rev(val) ==
    LET mag      == FAbs(val)
        decimals == (F2IntZ(FMul100(mag)) % 100) % H16
        units    == F2IntZ(mag)
        d        == <<(decimals % 10) + 48, ((decimals \div 10) % 10) + 48, 46>>
                    \o (IF units = 0 THEN <<48>> ELSE FtoaUnits_rev(units))
                    \o (IF FNeg(val) THEN <<45>> ELSE <<>>)
        charCnt  == Len(d) + 1
    IN  [str |-> utilStrReverse(d, charCnt - 1), ret |-> charCnt]

\* utilAtof's loop, left to right: intPart, fracPart and fracDiv as it leaves
\* them, or valid = FALSE at the first character that is no digit or separator
RECURSIVE AtofScan(_, _, _, _, _, _)
AtofScan(s, i, inFraction, intPart, fracPart, fracDiv) ==
    IF i > Len(s)
    THEN [valid |-> TRUE, intPart |-> intPart, fracPart |-> fracPart,
          fracDiv |-> fracDiv]
    ELSE IF s[i] = 46 \/ s[i] = 44
         THEN AtofScan(s, i + 1, TRUE, intPart, fracPart, fracDiv)
    ELSE IF isnumeric(s[i])
         THEN IF inFraction
              THEN The({AtofScan(s, i + 1, inFraction, intPart, a[1], a[2]) :
                           a \in {<<Add32(Muls(fracPart, W(10)), W(s[i] - 48)),
                                    Muls(fracDiv, W(10))>>}})
              ELSE The({AtofScan(s, i + 1, inFraction, a, fracPart, fracDiv) :
                           a \in {Add32(Muls(intPart, W(10)), W(s[i] - 48))}})
    ELSE [valid |-> FALSE, intPart |-> Zero32, fracPart |-> Zero32,
          fracDiv |-> W(1)]

\* utilAtof: valid, and the value as the library computes it at the end:
\* (-1)^neg * (float(intPart) + float(fracPart) / float(fracDiv))
utilAtof(s) ==
    LET r == AtofScan(AfterMinus(s), 1, FALSE, Zero32, Zero32, W(1))
    IN  [valid |-> r.valid, neg |-> r.valid /\ HasMinus(s),
         intPart |-> r.intPart, fracPart |-> r.fracPart, fracDiv |-> r.fracDiv]

\* ---- calls of the utility library

IntSpan == 2
MaxText == 3
DivSpan == 12
LongTail == 1

\* a small integer as an int32_t bit pattern
I32(v) == IF v >= 0 THEN W(v) ELSE Neg32(W(-v))

INT32_MIN_W == <<32768, 0>>

\* the representative integers, the values around zero and those at and next
\* to INT32_MIN and INT32_MAX
IntInputs ==
    {I32(v) : v \in {123, -456, 999999, -999999, 10, -10, 65535, 65536}}
    \cup {I32(v) : v \in (-IntSpan)..IntSpan}
    \cup {Add32(INT32_MIN_W, W(d)) : d \in 0..IntSpan}
    \cup {Sub32(W(INT32_MAX), W(d)) : d \in 0..IntSpan}

\* 10^k as a 32-bit word
RECURSIVE Pow10W(_)
Pow10W(k) == IF k = 0 THEN W(1) ELSE Muls(Pow10W(k - 1), W(10))

\* 2^k as a 32-bit word
Pow2W(k) == IF k < 16 THEN <<0, Pow2(k)>> ELSE <<Pow2(k - 16), 0>>

\* the dividends handed to fastDiv10: the values next to every power of two
\* and of ten, and those at both ends of the 32-bit range
DivInputs ==
    {Add32(Pow2W(k), I32(d)) : k \in 0..31, d \in (-DivSpan)..DivSpan}
    \cup {Add32(Pow10W(k), I32(d)) : k \in 0..9, d \in (-DivSpan)..DivSpan}
    \cup {Add32(Muls(Pow10W(9), W(m)), I32(d)) : m \in 2..4, d \in (-DivSpan)..DivSpan}

\* - . 0 1 9 A F a f g
TextChars == {45, 46, 48, 49, 57, 65, 70, 97, 102, 103}

\* "429496729", "214748364", "999999999", "FFFFFFFF", "7fffffff": numerals
\* that one or two more digits carry past 32 bits
LongHeads ==
    {<<52, 50, 57, 52, 57, 54, 55, 50, 57>>,
     <<50, 49, 52, 55, 52, 56, 51, 54, 52>>,
     <<57, 57, 57, 57, 57, 57, 57, 57, 57>>,
     <<70, 70, 70, 70, 70, 70, 70, 70>>,
     <<55, 102, 102, 102, 102, 102, 102, 102>>}

\* the digits that follow a long head: 0 5 6 7 8 9
LongTailChars == {48, 53, 54, 55, 56, 57}

\* long numerals, with and without a leading '-'
LongTexts ==
    {sign \o head \o tail :
        sign \in {<<>>, <<45>>}, head \in LongHeads,
        tail \in UNION {[1..n -> LongTailChars] : n \in 0..(LongTail + 1)}}

TextInputs == UNION {[1..n -> TextChars] : n \in 0..MaxText} \cup LongTexts

\* 0, 1, -1, 123.45, -456.78, 0.29, 99.99, 131072.5, 2000000.5, 16777220
FloatInputs ==
    {<<0, 0, 0>>, <<0, 8388608, -23>>, <<1, 8388608, -23>>,
     <<0, 16180838, -17>>, <<1, 14967767, -15>>, <<0, 9730785, -25>>,
     <<0, 13105889, -17>>, <<0, 8388640, -6>>, <<0, 16000004, -3>>,
     <<0, 8388610, 1>>}

NoConv == <<>>

UtilFixed ==
    /\ uPhase = "start" /\ uFn = "none" /\ uRet = 0
    /\ uConvs = NoConv /\ uFconvs = NoConv /\ uQuot = Zero32

\* the library at rest, for the specifications of the drivers
UtilQuiet ==
    /\ uKind = "int" /\ uGen = "new" /\ uBase = ITOA_BASE10
    /\ uVal = Zero32 /\ uF = <<0, 0, 0>> /\ uBuf = <<>> /\ uIn = <<>>
    /\ UtilFixed

UtilStart ==
    /\ uGen \in {"new", "rev"}
    /\ uBase \in {ITOA_BASE10, ITOA_BASE16}
    /\ \/ uKind = "int" /\ uVal \in IntInputs /\ uF = <<0, 0, 0>>
          /\ uBuf = <<>>
       \/ uKind = "word" /\ uVal \in DivInputs /\ uF = <<0, 0, 0>>
          /\ uBuf = <<>>
       \/ uKind = "text" /\ uVal = Zero32 /\ uF = <<0, 0, 0>>
          /\ uBuf \in TextInputs
       \/ uKind = "float" /\ uVal = Zero32 /\ uF \in FloatInputs
          /\ uBuf = <<>>
    /\ uIn = uBuf
    /\ UtilFixed

UtilOthers == <<sqrVars, wdtVars, i2cVars, extVars, uartVars, cfgVars>>

\* utilItoa(buf, val, base), whichever generation is linked
CallUtilItoa ==
    /\ uKind = "int" /\ uPhase = "start"
    /\ LET r == IF uGen = "new" THEN utilItoa(uVal, uBase)
                ELSE utilItoa_rev(uVal, uBase)
       IN  uBuf' = r.str /\ uRet' = r.ret
    /\ uIn' = uBuf'
    /\ uPhase' = "formatted"
    /\ uFn' = "utilItoa"
    /\ UNCHANGED <<uKind, uGen, uBase, uVal, uF, uConvs, uFconvs, uQuot>>
    /\ UNCHANGED UtilOthers

\* utilFtoa(buf, val), whichever generation is linked
CallUtilFtoa ==
    /\ uKind = "float" /\ uPhase = "start"
    /\ LET r == IF uGen = "new" THEN utilFtoa(uF) ELSE utilFtoa_rev(uF)
       IN  uBuf' = r.str /\ uRet' = r.ret
    /\ uIn' = uBuf'
    /\ uPhase' = "formatted"
    /\ uFn' = "utilFtoa"
    /\ UNCHANGED <<uKind, uGen, uBase, uVal, uF, uConvs, uFconvs, uQuot>>
    /\ UNCHANGED UtilOthers

M_CallUtilAtoi_Reverses ==
    /\ uKind \in {"int", "text"}
    /\ uKind = "int" => uPhase = "formatted"
    /\ Len(uConvs) < 2 /\ uFconvs = NoConv
    /\ LET r == utilAtoi_rev(uBuf, uBase)
       IN  /\ uConvs' = Append(uConvs, [valid |-> r.valid, val |-> r.val])
           /\ uBuf' = r.buf
    /\ uPhase' = "parsed"
    /\ uFn' = "utilAtoi"
    /\ UNCHANGED <<uKind, uGen, uBase, uVal, uF, uIn, uRet, uFconvs, uQuot>>
    /\ UNCHANGED UtilOthers

\* utilAtoi(buf, base) on the caller's buffer: the text it was given, or the
\* text utilItoa has just written; the caller may call it a second time
CallUtilAtoi ==
    /\ uKind \in {"int", "text"}
    /\ uKind = "int" => uPhase = "formatted"
    /\ Len(uConvs) < 2 /\ uFconvs = NoConv
    /\ IF uGen = "new"
       THEN /\ uConvs' = Append(uConvs, utilAtoi(uBuf, uBase))
            /\ UNCHANGED uBuf
       ELSE LET r == utilAtoi_rev(uBuf, uBase)
            IN  /\ uConvs' = Append(uConvs, [valid |-> r.valid, val |-> r.val])
                /\ uBuf' = r.buf
    /\ uPhase' = "parsed"
    /\ uFn' = "utilAtoi"
    /\ UNCHANGED <<uKind, uGen, uBase, uVal, uF, uIn, uRet, uFconvs, uQuot>>
    /\ UNCHANGED UtilOthers

\* utilAtof(buf) of the left-to-right generation
CallUtilAtof ==
    /\ uKind = "text" /\ uGen = "new"
    /\ Len(uFconvs) < 2 /\ uConvs = NoConv
    /\ uFconvs' = Append(uFconvs, utilAtof(uBuf))
    /\ uPhase' = "parsed"
    /\ uFn' = "utilAtof"
    /\ UNCHANGED <<uKind, uGen, uBase, uVal, uF, uBuf, uIn, uRet, uConvs, uQuot>>
    /\ UNCHANGED UtilOthers

\* q = fastDiv10(uval), as the digit loops of utilItoa and utilFtoa call it
CallFastDiv10 ==
    /\ uKind = "word" /\ uPhase = "start"
    /\ uQuot' = fastDiv10(uVal)
    /\ uPhase' = "divided"
    /\ uFn' = "fastDiv10"
    /\ UNCHANGED <<uKind, uGen, uBase, uVal, uF, uBuf, uIn, uRet, uConvs,
                   uFconvs>>
    /\ UNCHANGED UtilOthers

NextUtil ==
    \/ CallFastDiv10
    \/ CallUtilItoa
    \/ CallUtilFtoa
    \/ CallUtilAtoi
    \/ CallUtilAtof

-----------------------------------------------------------------------------
(* Configuration record: the packed Emon32Config_t image in the            *)
(* non-volatile store, its key and CRC, and the loader that validates it.  *)
(* Two one-byte fields stand for the configuration sub-records.            *)

\* the key of a valid record and that of an erased store, low byte first
CONFIG_NVM_KEY == <<126, 231, 85, 202>>
NVM_ERASED_KEY == <<255, 255, 255, 255>>

NodeIds == {17, 18}
DataGrps == {210, 211}
CfgRecords == [nodeID : NodeIds, dataGrp : DataGrps]

\* the compiled-in default configuration
ConfigDefault == [nodeID |-> 17, dataGrp |-> 210]

\* exclusive or of two n-bit numbers
RECURSIVE Xor(_, _, _)
Xor(a, b, n) ==
    IF n = 0 THEN 0
    ELSE (((a % 2) + (b % 2)) % 2) + 2 * Xor(a \div 2, b \div 2, n - 1)

\* n shifts of the CRC register, polynomial x^16 + x^12 + x^5 + 1
RECURSIVE CrcShift(_, _)
CrcShift(crc, n) ==
    IF n = 0 THEN crc
    ELSE LET next == IF crc >= 32768 THEN Xor((crc * 2) % H16, 4129, 16)
                     ELSE crc * 2
         IN  CrcShift(next, n - 1)

\* the register after a byte has gone through it, by the byte's value
CrcTable == [x \in 0..255 |-> CrcShift(x * 256, 8)]

\* CRC16-CCITT of bytes i.. of a byte string, from register value crc
RECURSIVE CrcBytes(_, _, _)
CrcBytes(bytes, i, crc) ==
    IF i > Len(bytes) THEN crc
    ELSE CrcBytes(bytes, i + 1,
                  Xor((crc % 256) * 256,
                      CrcTable[Xor(crc \div 256, bytes[i], 8)], 16))

calcCRC16_ccitt(bytes) == CrcBytes(bytes, 1, 65535)

M_ConfigImage_KeyOnly(key, cfg) == key

\* the bytes of the packed record that precede crc16_ccitt: key, then fields
ConfigImage(key, cfg) == key \o <<cfg.nodeID, cfg.dataGrp>>

\* the stored record passes validation
NvmRecordValid ==
    /\ nvmKey = CONFIG_NVM_KEY
    /\ nvmCrc = calcCRC16_ccitt(ConfigImage(nvmKey, nvmCfg))

CfgOthers == <<sqrVars, wdtVars, i2cVars, extVars, uartVars, utilVars>>

\* the store erased, nothing loaded
CfgQuiet ==
    /\ nvmKey = NVM_ERASED_KEY
    /\ nvmCfg = [nodeID |-> 255, dataGrp |-> 255]
    /\ nvmCrc = 65535
    /\ nvmWritten = "found"
    /\ cfgRam = ConfigDefault
    /\ cfgLoaded = FALSE

\* the store as the firmware may find it at boot: erased, or holding a record
\* of an earlier run with its CRC right or wrong
CfgStart ==
    /\ nvmKey \in {CONFIG_NVM_KEY, NVM_ERASED_KEY}
    /\ nvmCfg \in CfgRecords \cup {[nodeID |-> 255, dataGrp |-> 255]}
    /\ nvmCrc \in {calcCRC16_ccitt(ConfigImage(nvmKey, nvmCfg)), 65535}
    /\ nvmWritten = "found"
    /\ cfgRam = ConfigDefault
    /\ cfgLoaded = FALSE

\* a record is written with the valid key and the CRC computed over its image
configStore ==
    /\ \E cfg \in CfgRecords :
          /\ nvmCfg' = cfg
          /\ nvmCrc' = calcCRC16_ccitt(ConfigImage(CONFIG_NVM_KEY, cfg))
    /\ nvmKey' = CONFIG_NVM_KEY
    /\ nvmWritten' = "stored"
    /\ cfgLoaded' = FALSE
    /\ UNCHANGED cfgRam
    /\ UNCHANGED CfgOthers

\* the CRC field of a stored record is corrupted
NvmCorruptCrc ==
    /\ nvmWritten = "stored"
    /\ \E d \in {1, 256} : nvmCrc' = (nvmCrc + d) % H16
    /\ nvmWritten' = "damaged"
    /\ cfgLoaded' = FALSE
    /\ UNCHANGED <<nvmKey, nvmCfg, cfgRam>>
    /\ UNCHANGED CfgOthers

\* the key of a stored record is wrong: another version's, or erased
NvmCorruptKey ==
    /\ nvmWritten = "stored"
    /\ nvmKey' \in {NVM_ERASED_KEY, <<127, 231, 85, 202>>}
    /\ nvmWritten' = "damaged"
    /\ cfgLoaded' = FALSE
    /\ UNCHANGED <<nvmCfg, nvmCrc, cfgRam>>
    /\ UNCHANGED CfgOthers

\* one field byte of a stored record is corrupted
NvmCorruptField ==
    /\ nvmWritten = "stored"
    /\ \/ \E b \in (NodeIds \cup {255}) \ {nvmCfg.nodeID} :
             nvmCfg' = [nvmCfg EXCEPT !.nodeID = b]
       \/ \E b \in (DataGrps \cup {255}) \ {nvmCfg.dataGrp} :
             nvmCfg' = [nvmCfg EXCEPT !.dataGrp = b]
    /\ nvmWritten' = "damaged"
    /\ cfgLoaded' = FALSE
    /\ UNCHANGED <<nvmKey, nvmCrc, cfgRam>>
    /\ UNCHANGED CfgOthers

\* configLoadFromNVM: the stored record if key and CRC validate, else the
\* compiled-in default
configLoadFromNVM ==
    /\ ~cfgLoaded
    /\ cfgRam' = IF NvmRecordValid THEN nvmCfg ELSE ConfigDefault
    /\ cfgLoaded' = TRUE
    /\ UNCHANGED <<nvmKey, nvmCfg, nvmCrc, nvmWritten>>
    /\ UNCHANGED CfgOthers

NextCfg ==
    \/ configStore
    \/ NvmCorruptCrc
    \/ NvmCorruptKey
    \/ NvmCorruptField
    \/ configLoadFromNVM

-----------------------------------------------------------------------------
(* Specifications                                                          *)

InitSqr == sqIn \in SqrInputs /\ SqrIdle /\ WdtQuiet /\ I2cQuiet /\ ExtQuiet /\ UartQuiet /\ UtilQuiet /\ CfgQuiet

InitWdt == SqrQuiet /\ WdtQuiet /\ I2cQuiet /\ ExtQuiet /\ UartQuiet /\ UtilQuiet /\ CfgQuiet

InitI2c == SqrQuiet /\ WdtQuiet /\ I2cQuiet /\ ExtQuiet /\ UartQuiet /\ UtilQuiet /\ CfgQuiet

InitExt == SqrQuiet /\ WdtQuiet /\ I2cQuiet /\ ExtStart /\ UartQuiet /\ UtilQuiet /\ CfgQuiet

InitUart == SqrQuiet /\ WdtQuiet /\ I2cQuiet /\ ExtQuiet /\ UartQuiet /\ UtilQuiet /\ CfgQuiet

InitUtil == SqrQuiet /\ WdtQuiet /\ I2cQuiet /\ ExtQuiet /\ UartQuiet /\ UtilStart /\ CfgQuiet

SpecSqr == InitSqr /\ [][NextSqr]_vars

SpecWdt == InitWdt /\ [][NextWdt]_vars

SpecI2c == InitI2c /\ [][NextI2c]_vars

SpecExt == InitExt /\ [][NextExt]_vars

SpecUart == InitUart /\ [][NextUart]_vars

SpecUtil == InitUtil /\ [][NextUtil]_vars

InitCfg == SqrQuiet /\ WdtQuiet /\ I2cQuiet /\ ExtQuiet /\ UartQuiet /\ UtilQuiet /\ CfgStart

SpecCfg == InitCfg /\ [][NextCfg]_vars

\* the blocking transmit paths of the serial driver: SPI byte exchange and UART
NextSerial ==
    \/ NextUart
    \/ spiSendByte_Enter
    \/ spiSendByte_WaitDre
    \/ spiSendByte_WaitRxc
    \/ SpiHwDre
    \/ SpiHwRxc

\* a step of the processor: the pending completion handler, or the main
\* program inside a blocking call
SerialCpuStep ==
    \/ irq_handler_dmac
    \/ uartPutcBlocking_WaitInUse
    \/ uartPutcBlocking_WaitDre
    \/ uartPutsBlocking_Loop
    \/ spiSendByte_WaitDre
    \/ spiSendByte_WaitRxc

\* the processor keeps executing; nothing obliges the hardware to raise a flag
FairSpecSerial == InitUart /\ [][NextSerial]_vars /\ WF_vars(SerialCpuStep)

\* a step of the processor inside a UART call or in the completion handler
UartCpuStep ==
    \/ irq_handler_dmac
    \/ uartPutcBlocking_WaitInUse
    \/ uartPutcBlocking_WaitDre
    \/ uartPutsBlocking_Loop
    \/ uartPutsNonBlocking_Cli
    \/ uartPutsNonBlocking_Flag
    \/ dmacChannelEnable
    \/ uartPutsNonBlocking_Sti

\* the processor keeps executing, the transmitter takes every byte, the DMA
\* engine fetches, transfers and completes every block it can, and the
\* completion interrupt is delivered
FairSpecUart ==
    /\ InitUart /\ [][NextUart]_vars
    /\ WF_vars(UartCpuStep)
    /\ WF_vars(UartHwDre)
    /\ WF_vars(DmaFetch) /\ WF_vars(DmaBeat) /\ WF_vars(DmaComplete)

-----------------------------------------------------------------------------
(* Claims                                                                  *)

\* C2: for every 32-bit signed input the pair returned by ssqr64 is the exact
\* square of the input, and its top bit is clear (the result is non-negative).
C2_SsqrExact ==
    sqFn = "ssqr64" =>
        /\ Bytes64(sqOut[1], sqOut[2]) = ExactSquare(Magnitude(sqIn))
        /\ Hi(sqOut[2]) < 32768

\* C4: once the watchdog is set up and enabled, the time since the main loop
\* last fed it never exceeds the configured period without a reset: at the
\* period the system has been reset, the early-warning handler has run and
\* returned by then, and the watchdog stays enabled throughout.
C4_ResetWithinPeriod ==
    wdtPc = "running" =>
        /\ wdtEnabled
        /\ sinceFeed <= WdtPerTicks
        /\ (sinceFeed = WdtPerTicks /\ ~cpuHalted) => wdtReset
        /\ wdtReset => (wdtIrqPc = "idle" /\ ~wdtEwFlag)
        /\ (wdtCount > WdtEwTicks) => (wdtIrqPc = "idle" /\ ~wdtEwFlag)

\* C4 witness: the feed was withheld past the early warning with no debugger,
\* the handler has returned, and the reset has occurred at the period.
C4_Witness ==
    wdtReset /\ sinceFeed = WdtPerTicks /\ ~dbgPres /\ wdtIrqPc = "idle"

\* C5: when the early-warning handler reaches its test with a debugger
\* attached, the core halts at the breakpoint and no reset happens while it is
\* halted; with no debugger attached the handler has only cleared the
\* early-warning flag, and returns without halting.
C5_HaltOnlyWithDebugger ==
    /\ [][(wdtIrqPc = "idle" /\ wdtIrqPc' = "check") =>
            /\ ~wdtEwFlag'
            /\ UNCHANGED <<wdtPc, wdtEnabled, wdtEwIntEn, wdtCount, cpuHalted,
                           wdtReset, sinceFeed>>]_vars
    /\ [][(wdtIrqPc = "check" /\ wdtIrqPc' # "check") =>
            /\ dbgPres => (cpuHalted' /\ wdtIrqPc' = "bkpt")
            /\ ~dbgPres => (~cpuHalted' /\ wdtIrqPc' = "idle")
            /\ UNCHANGED <<wdtPc, wdtEnabled, wdtEwIntEn, wdtCount, wdtEwFlag,
                           wdtReset, sinceFeed>>]_vars
    /\ [][cpuHalted => ~wdtReset']_vars

\* C5 witness: the core is halted at the breakpoint with the debugger attached
\* after the early warning was taken.
C5_Witness ==
    cpuHalted /\ dbgPres /\ wdtIrqPc = "bkpt" /\ wdtCount = WdtEwTicks /\ ~wdtReset

Min(a, b) == IF a < b THEN a ELSE b

RecoveryAfterLoop == {"stop_low", "stop_scl", "stop_high", "remux", "reinit"}

\* C6: with a peripheral that releases SDA after holdK pulses, i2cBusRecovery
\* generates exactly min(holdK, 9) SCL pulses: never a tenth, each pulse only
\* after a sample that read SDA low, and none once SDA was sampled high.
C6_PulsesMinK9 ==
    /\ i2cOp = "recovery" =>
        /\ pulses <= I2C_RECOVERY_PULSES /\ pulses <= holdK
        /\ i2cPc \in {"pulse_low", "pulse_high"} =>
              (sdaSample = 0 /\ pulses < holdK)
        /\ i2cPc \in RecoveryAfterLoop =>
              pulses = Min(holdK, I2C_RECOVERY_PULSES)
    /\ (i2cOp = "none" /\ i2cLastOp = "recovery") =>
          pulses = Min(holdK, I2C_RECOVERY_PULSES)

\* C6 witness: the peripheral wanted more than nine pulses and the recovery
\* has returned after exactly nine.
C6_Witness ==
    /\ i2cOp = "none" /\ i2cLastOp = "recovery"
    /\ holdK > I2C_RECOVERY_PULSES /\ pulses = I2C_RECOVERY_PULSES

\* C7: while i2cBusRecovery is in progress the peripheral is disabled; once it
\* has returned both pins are on the peripheral function and the master is
\* enabled with its bus state idle; and the next i2cActivate does not return
\* I2CM_DISABLED but writes the address and owns the bus.
C7_ReadyAfterRecovery ==
    /\ [](i2cOp = "recovery" => ~i2cEnabled)
    /\ []((i2cOp = "none" /\ i2cLastOp = "recovery") =>
            /\ sdaMux = "periph" /\ sclMux = "periph"
            /\ i2cEnabled /\ i2cBusState = "idle")
    /\ [][(i2cOp = "none" /\ i2cLastOp = "recovery"
            /\ (i2cOp' = "activate" \/ i2cLastOp' = "activate")) =>
            /\ i2cOp' = "activate" /\ i2cPc' = "wait"
            /\ i2cBusState' = "owner"
            /\ ~intMB' /\ ~intSB']_vars

\* C7 witness: the recovery has returned although SDA was not released within
\* nine pulses.
C7_Witness ==
    /\ i2cOp = "none" /\ i2cLastOp = "recovery"
    /\ pulses = I2C_RECOVERY_PULSES /\ holdK > pulses /\ SdaLine = 0
    /\ i2cEnabled

I2cTimed == {"activate", "write", "read"}

C9_BlockingCallsReturn ==
    /\ (extPc \in {"sb_dre", "sb_rxc"}) ~> (extPc = "idle")
    /\ (uartPc \in {"putc_inuse", "putc_dre"})
          ~> (uartPc \in {"idle", "puts_loop"})

\* the bytes of each string sent by DMA are adjacent on the wire
WireContiguous ==
    \A i \in 1..Len(wire) :
        (wire[i][1] # 0 /\ wire[i][2] > 0)
            => (i > 1 /\ wire[i - 1] = <<wire[i][1], wire[i][2] - 1>>)

\* C1: while a non-blocking transfer is in flight (uartInUse true) a second
\* uartPutsNonBlocking neither rewrites the DMA descriptor nor passes on to
\* enabling the channel, and the bytes of two transfers are never interleaved
\* on the wire.
C1_SecondCallWaits ==
    /\ [][uartInUse => (descCnt' = descCnt /\ descSrc' = descSrc)]_vars
    /\ [][(uartInUse /\ uartPc = "idle") => uartPc' # "nb_cli"]_vars
    /\ []WireContiguous

\* C3: when eicConfigureRfmIrq finds the strap changed between its two
\* samples, the interface state it leaves is the one of the final strap
\* level: enabled for strap high, disabled for strap low.
C3_NoStrapEdgeLost ==
    [][(extPc = "eic_on" /\ extPc' = "idle" /\ nDisable # strap)
          => extIntfEnabled' = (strap' = 1)]_vars

SpiBusy == extPc \in {"sb_dre", "sb_rxc", "buf_loop"}

\* C10: while extIntfEnabled is false the SPI pins and chip select are plain
\* inputs, and an SPI operation begun in that state is a no-op: it returns at
\* once, writes nothing to the data register, leaves the chip-select output
\* alone, and spiSendByte returns 0.
C10_DisabledSpiIsNoOp ==
    /\ [](~extIntfEnabled => (~spiPinsMuxed /\ ssDir = "in"))
    /\ [][(~extIntfEnabled /\ extPc = "idle")
             => /\ spiDataWrites' = spiDataWrites
                /\ ssOut' = ssOut
                /\ ~SpiBusy'
                /\ spiRet' \in {spiRet, "zero"}]_vars

\* C10 witness: with the interface disabled and the pins inputs, spiSendByte
\* has returned 0 and nothing was ever written to the data register.
C10_Witness ==
    /\ ~extIntfEnabled /\ ssDir = "in" /\ ~spiPinsMuxed
    /\ extLast = "spiSendByte" /\ spiRet = "zero"
    /\ spiDataWrites = 0 /\ ssOut = 1

\* C14: for every 32-bit unsigned input the pair returned by usqr64 is the
\* exact 64-bit square, low + high * 2^32 = x * x, the carry out of the low
\* word included.
C14_UsqrExact ==
    sqFn = "usqr64" => Bytes64(sqOut[1], sqOut[2]) = ExactSquare(sqIn)

\* C14 witness: 0xFFFFFFFF squared is 0xFFFFFFFE00000001; adding the doubled
\* cross term to the low word carries into the high word.
C14_Witness ==
    /\ sqFn = "usqr64" /\ sqIn = <<65535, 65535>>
    /\ sqOut = <<<<0, 1>>, <<65535, 65534>>>>
    /\ AddC(Muls(Uxth(sqIn), Uxth(sqIn)),
            Lsls(Muls(Lsrs(sqIn, 16), Uxth(sqIn)), 17), 0).carry = 1

\* a digit of the requested base, hexadecimal letters in either case
ValidDigit(c, base) ==
    \/ 48 <= c /\ c <= 57
    \/ base = ITOA_BASE16 /\ ((97 <= c /\ c <= 102) \/ (65 <= c /\ c <= 70))

\* the text has a first character after its optional '-', and it is no digit
FirstCharInvalid(s, base) ==
    /\ Len(AfterMinus(s)) > 0
    /\ ~ValidDigit(AfterMinus(s)[1], base)

\* C11: for a text whose first character after an optional '-' is not a digit
\* of the base, utilAtoi of either generation returns valid = false and
\* value 0, whatever follows that character.
C11_InvalidFirstChar ==
    (uKind = "text" /\ uFn = "utilAtoi" /\ FirstCharInvalid(uIn, uBase))
        => (~uConvs[1].valid /\ uConvs[1].val = Zero32)

\* C12: for every representative int32 value and both bases, parsing the
\* text utilItoa wrote gives valid = true and the value formatted.
C12_RoundTrip ==
    (uKind = "int" /\ uPhase = "parsed")
        => (uConvs[1].valid /\ uConvs[1].val = uVal)

\* C12 witness: INT32_MIN has gone through the decimal round trip of the
\* left-to-right generation as the text "-2147483648".
C12_Witness ==
    /\ uKind = "int" /\ uPhase = "parsed" /\ uGen = "new"
    /\ uBase = ITOA_BASE10 /\ uVal = INT32_MIN_W
    /\ uIn = <<45, 50, 49, 52, 55, 52, 56, 51, 54, 52, 56>>
    /\ uConvs[1] = [valid |-> TRUE, val |-> INT32_MIN_W]

\* the exact value of a string of decimal digits, as <<high, low 16 bits>>
RECURSIVE DecValue(_, _, _, _)
DecValue(s, i, hi, lo) ==
    IF i > Len(s) THEN <<hi, lo>>
    ELSE LET x == lo * 10 + (s[i] - 48)
         IN  DecValue(s, i + 1, hi * 10 + (x \div H16), x % H16)

\* s is the canonical decimal text of the int32 value v
IsCanonicalDecimal(s, v) ==
    LET body == AfterMinus(s)
    IN  /\ HasMinus(s) <=> IsNegative(v)
        /\ Len(body) >= 1
        /\ \A i \in 1..Len(body) : isnumeric(body[i])
        /\ Len(body) > 1 => body[1] # 48
        /\ DecValue(body, 1, 0, 0) = Magnitude(v)

\* C13: in base 10 utilItoa of either generation writes the canonical decimal
\* text of its argument (sign, digits most significant first, no leading
\* zeros) and counts the terminator; 0 is written as "0".
C13_ItoaCanonical ==
    (uFn = "utilItoa" /\ uPhase = "formatted" /\ uBase = ITOA_BASE10)
        => /\ IsCanonicalDecimal(uBuf, uVal)
           /\ uRet = Len(uBuf) + 1
           /\ uVal = Zero32 => uBuf = <<48>>

\* C13 witness: 0 has been written as "0" and -999999 as "-999999".
C13_Witness ==
    /\ uFn = "utilItoa" /\ uPhase = "formatted" /\ uBase = ITOA_BASE10
    /\ uGen = "new" /\ uVal = I32(-999999)
    /\ uBuf = <<45, 57, 57, 57, 57, 57, 57>>

FloatUnits(f) ==
    IF f[3] >= 0 THEN f[2] * Pow2(f[3])
    ELSE IF -f[3] >= 25 THEN 0 ELSE f[2] \div Pow2(-f[3])

\* the hundredths of a float truncated toward zero, exactly
FloatHundredths(f) ==
    IF f[3] >= 0 \/ -f[3] >= 31 THEN 0
    ELSE ((f[2] * 100) \div Pow2(-f[3])) % 100

\* C17: utilFtoa of either generation writes the sign first for a negative
\* value, the integer part, a '.', and exactly two fractional characters,
\* both decimal digits, which are the value's hundredths truncated toward
\* zero.
C17_FtoaTwoDigits ==
    (uFn = "utilFtoa" /\ uPhase = "formatted")
        => LET n == Len(uBuf)
               int == SubSeq(AfterMinus(uBuf), 1, Len(AfterMinus(uBuf)) - 3)
           IN  /\ n >= 4
               /\ HasMinus(uBuf) <=> FNeg(uF)
               /\ uBuf[n - 2] = 46
               /\ isnumeric(uBuf[n - 1]) /\ isnumeric(uBuf[n])
               /\ IsCanonicalDecimal(int, W(FloatUnits(uF)))
               /\ (uBuf[n - 1] - 48) * 10 + (uBuf[n] - 48)
                      = FloatHundredths(uF)

\* the engine holds a block it has not finished
TransferInFlight == dmaActive

\* C18: uartInUse is true for the whole of a DMA transfer: it is set before
\* the channel is enabled, the channel is enabled with interrupts masked, only
\* the completion callback clears it, and no transfer is in flight while it
\* is false.
C18_BusyWhileInFlight ==
    /\ [](TransferInFlight => uartInUse)
    /\ [][(uartPc = "nb_enable" /\ uartPc' = "nb_sti")
             => (uartInUse /\ irqMasked)]_vars
    /\ [][(uartInUse /\ ~uartInUse') => (dmaTcmpl /\ ~dmaTcmpl')]_vars

\* a blocking call writes USART.DATA in this step
BlockingWrite == uartPc = "putc_dre" /\ Len(wire') = Len(wire) + 1

\* the entries of the wire written by blocking calls before position i
RECURSIVE LastBlocking(_)
LastBlocking(i) ==
    IF i = 0 THEN 0
    ELSE IF wire[i][1] = 0 THEN i ELSE LastBlocking(i - 1)

\* every character of a uartPutsBlocking string follows its predecessor
PutsInOrder ==
    \A i \in 1..Len(wire) :
        (wire[i][1] = 0 /\ wire[i][2] > 1)
            => LET j == LastBlocking(i - 1)
               IN  j > 0 /\ wire[j] = <<0, wire[i][2] - 1>>

\* no byte of a blocking call lies between two bytes of one DMA string: a
\* byte the engine writes after the first of its block follows a byte the
\* engine wrote
NoBlockingInsideDma ==
    \A i \in 1..Len(wire) :
        (wire[i][1] # 0 /\ wire[i][2] > 0) => (i > 1 /\ wire[i - 1][1] # 0)

\* C19: uartPutcBlocking, called directly or by uartPutsBlocking, writes the
\* data register only when no DMA transfer is in flight, so its bytes are
\* never interleaved with those of a non-blocking transfer, and
\* uartPutsBlocking writes the characters of its string in order.
C19_BlockingNeverInterleaves ==
    /\ [][BlockingWrite => ~TransferInFlight]_vars
    /\ []NoBlockingInsideDma
    /\ []PutsInOrder

\* i2cActivate or i2cDataWrite returns in this step
I2cAddrOrWriteReturns ==
    /\ i2cOp \in {"activate", "write"} /\ i2cPc = "wait"
    /\ i2cOp' = "none"

\* the flag the primitive waits for is raised
I2cAwaitedFlag == IF i2cOp = "activate" THEN intMB \/ intSB ELSE intMB

I2cBusFault == stBusErr \/ stArbLost

\* C20: when the awaited flag is raised, i2cActivate and i2cDataWrite return
\* I2CM_ERROR for a bus fault (BUSERR or ARBLOST) even if RXNACK is set too,
\* I2CM_NOACK exactly when RXNACK is set without a bus fault, and
\* I2CM_SUCCESS otherwise; I2CM_TIMEOUT is returned only with the flag down.
C20_FaultBeforeNack ==
    [][I2cAddrOrWriteReturns =>
          /\ I2cAwaitedFlag =>
                /\ I2cBusFault => i2cRet' = "I2CM_ERROR"
                /\ (stRxNack /\ ~I2cBusFault) <=> i2cRet' = "I2CM_NOACK"
                /\ (~stRxNack /\ ~I2cBusFault) => i2cRet' = "I2CM_SUCCESS"
          /\ i2cRet' = "I2CM_TIMEOUT" => ~I2cAwaitedFlag]_vars

\* C20 witness: i2cDataWrite has returned I2CM_ERROR with arbitration lost and
\* a NACK both flagged.
C20_Witness ==
    /\ i2cOp = "none" /\ i2cLastOp = "write" /\ i2cRet = "I2CM_ERROR"
    /\ intMB /\ stArbLost /\ ~stBusErr /\ stRxNack

I2cPrimitiveStep == i2cOp \in {"activate", "write", "read", "ack"}

\* C21: no I2C primitive retries or recovers on its own: a call of
\* i2cActivate or i2cDataWrite writes ADDR or DATA at most once, a primitive
\* never disables the peripheral, changes the pin multiplexing, drives the
\* pins or pulses the clock, whatever status it returns, and those steps are
\* taken only inside i2cBusRecovery.
C21_NoRetryNoRecovery ==
    /\ [](i2cWrites <= 1)
    /\ [][I2cPrimitiveStep =>
             /\ i2cOp' \in {i2cOp, "none"}
             /\ i2cWrites' = i2cWrites
             /\ i2cEnabled' = i2cEnabled
             /\ sdaMux' = sdaMux /\ sclMux' = sclMux
             /\ sclOut' = sclOut /\ sdaDrive' = sdaDrive
             /\ pulses' = pulses]_vars
    /\ [][((i2cEnabled /\ ~i2cEnabled') \/ sclOut' # sclOut
              \/ sdaDrive' # sdaDrive \/ pulses' > pulses
              \/ (sdaMux = "periph" /\ sdaMux' = "gpio"))
             => (i2cOp = "recovery" \/ i2cOp' = "recovery")]_vars

\* C21 witness: i2cDataWrite has timed out after its single write of DATA and
\* the peripheral is still enabled on its pins.
C21_Witness ==
    /\ i2cOp = "none" /\ i2cLastOp = "write" /\ i2cRet = "I2CM_TIMEOUT"
    /\ i2cWrites = 1 /\ i2cEnabled /\ sdaMux = "periph" /\ sclMux = "periph"

\* i2cBusRecovery is past its clock-toggle loop
I2cAfterPulses ==
    /\ i2cOp = "recovery"
    /\ i2cPc \in {"stop_low", "stop_scl", "stop_high", "remux", "reinit"}

\* C22: after the clock-toggle loop i2cBusRecovery drives a stop condition:
\* SDA is driven low and then high, SCL is high at every step from the end of
\* the last pulse to the return, and the stop is complete before the pins go
\* back to the peripheral and the master is re-initialised.
C22_StopWhileSclHigh ==
    /\ [](I2cAfterPulses => sclOut = 1)
    /\ []((i2cOp = "recovery" /\ i2cPc \in {"stop_scl", "stop_high"})
             => (sdaDrive = "low" /\ sdaMux = "gpio" /\ sclMux = "gpio"))
    /\ []((i2cOp = "recovery" /\ i2cPc \in {"remux", "reinit"})
             => sdaDrive = "high")
    /\ [][(sdaDrive = "low" /\ sdaDrive' = "high")
             => (sclOut = 1 /\ sclOut' = 1 /\ sdaMux' = "gpio" /\ ~i2cEnabled')]_vars
    /\ [][(I2cAfterPulses /\ sdaMux = "gpio" /\ sdaMux' = "periph")
             => (sdaDrive = "high" /\ ~i2cEnabled)]_vars

\* C22 witness: the recovery has returned after three pulses and the stop,
\* with both lines high and the master re-initialised.
C22_Witness ==
    /\ i2cOp = "none" /\ i2cLastOp = "recovery" /\ pulses = 3 /\ holdK = 3
    /\ sdaDrive = "high" /\ sclOut = 1 /\ sdaMux = "periph" /\ i2cEnabled
    /\ i2cBusState = "idle"

\* C28: i2cDataRead stores through pData, and reads the data register, only
\* when it returns I2CM_SUCCESS; on I2CM_TIMEOUT or I2CM_ERROR the caller's
\* byte is as it was.  i2cActivate on a disabled peripheral returns
\* I2CM_DISABLED without writing ADDR.
C28_ReadStoresOnlyOnSuccess ==
    /\ [][(i2cOp = "read" /\ i2cOp' = "none") =>
             /\ i2cRet' \in {"I2CM_SUCCESS", "I2CM_TIMEOUT", "I2CM_ERROR"}
             /\ i2cRet' = "I2CM_SUCCESS" <=> pData' = "new"
             /\ i2cRet' = "I2CM_SUCCESS" <=> i2cReads' = 1
             /\ i2cRet' # "I2CM_SUCCESS" => i2cReads' = 0]_vars
    /\ []((i2cOp = "none" /\ i2cLastOp = "activate" /\ i2cRet = "I2CM_DISABLED")
             => i2cWrites = 0)
    /\ [][(i2cOp = "none" /\ i2cOp' = "none" /\ i2cRet' = "I2CM_DISABLED"
              /\ i2cLastOp' = "activate")
             => (~i2cEnabled /\ i2cWrites' = 0)]_vars

\* C28 witness: i2cDataRead has returned I2CM_ERROR on a lost arbitration
\* and neither read the data register nor stored a byte.
C28_Witness ==
    /\ i2cOp = "none" /\ i2cLastOp = "read" /\ i2cRet = "I2CM_ERROR"
    /\ stArbLost /\ pData = "old" /\ i2cReads = 0

\* value of a character as a hexadecimal digit of either case, or -1
HexCharValue(c) ==
    IF c \in 48..57 THEN c - 48
    ELSE IF c \in 97..102 THEN c - 87
    ELSE IF c \in 65..70 THEN c - 55
    ELSE -1

IsLetter(c) == c \in 65..90 \/ c \in 97..122

\* the number a short hexadecimal numeral denotes
RECURSIVE HexNumeral(_)
HexNumeral(s) ==
    IF s = <<>> THEN 0
    ELSE 16 * HexNumeral(SubSeq(s, 1, Len(s) - 1)) + HexCharValue(s[Len(s)])

\* a text of hexadecimal digits of either case, short enough for HexNumeral
ShortHexText(s) ==
    /\ Len(s) <= 7
    /\ \A i \in 1..Len(s) : HexCharValue(s[i]) >= 0

\* the first utilAtoi call on a text the caller supplied has returned
AtoiOnTextDone ==
    /\ uKind = "text" /\ uPhase = "parsed" /\ uFn = "utilAtoi"
    /\ Len(uConvs) = 1

\* C23: in base 16 utilAtoi of either generation accepts 0-9 and a-f in
\* either case, an upper-case letter having the value of its lower-case
\* form ("FF" gives valid = true, value = 255); in base 10 it rejects every
\* text that holds a letter.
C23_HexEitherCase ==
    AtoiOnTextDone =>
        /\ (uBase = ITOA_BASE16 /\ ShortHexText(uIn))
              => (uConvs[1].valid /\ uConvs[1].val = W(HexNumeral(uIn)))
        /\ (uBase = ITOA_BASE10 /\ \E i \in 1..Len(uIn) : IsLetter(uIn[i]))
              => ~uConvs[1].valid

\* C23 restricted to the left-to-right generation
C23_HexEitherCaseNew == uGen = "new" => C23_HexEitherCase

\* floor((2^32 - 1) / 10) = 429496729 as <<high, low 16 bits>>
MaxQuot10 == <<6553, 39321>>

\* q <= floor((2^32 - 1) / 10), so that 10 * q does not wrap
QuotInRange(q) ==
    Hi(q) < Hi(MaxQuot10) \/ (Hi(q) = Hi(MaxQuot10) /\ Lo(q) <= Lo(MaxQuot10))

\* C24: fastDiv10 returns exactly floor(n / 10) for a 32-bit unsigned n: the
\* quotient q has 10 * q <= n < 10 * q + 10 without wrap-around, so that
\* n - 10 * q is a single digit 0..9, and q is the quotient of long division.
C24_FastDiv10Exact ==
    (uKind = "word" /\ uPhase = "divided") =>
        /\ QuotInRange(uQuot)
        /\ Hi(Sub32(uVal, Muls(uQuot, W(10)))) = 0
        /\ Lo(Sub32(uVal, Muls(uQuot, W(10)))) \in 0..9
        /\ uQuot = UDiv10(uVal)

\* C24 witness: fastDiv10(0xFFFFFFFF) has returned 429496729.
C24_Witness ==
    /\ uKind = "word" /\ uPhase = "divided" /\ uFn = "fastDiv10"
    /\ uVal = <<65535, 65535>> /\ uQuot = MaxQuot10

\* every character of s is a digit of the base
DigitsOfBase(s, base) ==
    \A i \in 1..Len(s) :
        IF base = ITOA_BASE10 THEN s[i] \in 48..57 ELSE HexCharValue(s[i]) >= 0

\* the numeral s in the base reduced modulo 2^32, as <<high, low 16 bits>>,
\* by multi-precision evaluation digit by digit
RECURSIVE Numeral32(_, _)
Numeral32(s, base) ==
    IF s = <<>> THEN <<0, 0>>
    ELSE LET v  == Numeral32(SubSeq(s, 1, Len(s) - 1), base)
             lo == v[2] * base + HexCharValue(s[Len(s)])
             hi == v[1] * base + (lo \div 65536)
         IN  <<hi % 65536, lo % 65536>>

\* (2^32 - x) mod 2^32
Opposite32(x) ==
    IF x[2] = 0 THEN <<(65536 - x[1]) % 65536, 0>>
    ELSE <<65535 - x[1], 65536 - x[2]>>

\* C29: the left-to-right utilAtoi makes no range check: for a text made only
\* of digits of the base after an optional '-', of any length, it returns
\* valid = true and the numeral modulo 2^32 as an int32 bit pattern, negated
\* when the text began with '-'; "" and "-" give valid = true, value 0.
C29_AtoiWrapsModulo ==
    (AtoiOnTextDone /\ uGen = "new" /\ DigitsOfBase(AfterMinus(uIn), uBase)) =>
        /\ uConvs[1].valid
        /\ uConvs[1].val = IF HasMinus(uIn)
                           THEN Opposite32(Numeral32(AfterMinus(uIn), uBase))
                           ELSE Numeral32(uIn, uBase)
        /\ uIn \in {<<>>, <<45>>} => uConvs[1].val = <<0, 0>>

\* C29 witness: "-2147483649" in base 10 has parsed to valid = true,
\* value INT32_MAX.
C29_Witness ==
    /\ AtoiOnTextDone /\ uGen = "new" /\ uBase = ITOA_BASE10
    /\ uIn = <<45, 50, 49, 52, 55, 52, 56, 51, 54, 52, 57>>
    /\ uConvs[1] = [valid |-> TRUE, val |-> <<32767, 65535>>]

\* C30: the two generations of utilItoa agree: for every int32 value and
\* both bases the text and the count written by the linked generation are
\* those of the other one, the count is the text's length plus one, and in
\* base 16 the text is the unsigned 32-bit pattern in lower-case digits.
C30_ItoaGenerationsAgree ==
    (uFn = "utilItoa" /\ uPhase = "formatted") =>
        LET other == IF uGen = "new" THEN utilItoa_rev(uVal, uBase)
                     ELSE utilItoa(uVal, uBase)
        IN  /\ uBuf = other.str
            /\ uRet = other.ret
            /\ uRet = Len(uBuf) + 1
            /\ uBase = ITOA_BASE16 =>
                  /\ \A i \in 1..Len(uBuf) : uBuf[i] \in (48..57) \cup (97..102)
                  /\ Numeral32(uBuf, ITOA_BASE16) = uVal
                  /\ Len(uBuf) > 1 => uBuf[1] # 48

\* C30 witness: the reversal-based utilItoa has written -1 in base 16 as
\* "ffffffff" and returned 9.
C30_Witness ==
    /\ uFn = "utilItoa" /\ uPhase = "formatted" /\ uGen = "rev"
    /\ uBase = ITOA_BASE16 /\ uVal = <<65535, 65535>>
    /\ uBuf = <<102, 102, 102, 102, 102, 102, 102, 102>> /\ uRet = 9

\* no EXTINT0 interrupt is pending or running
EicQuiescent == ~eicFlag0 /\ irqPc = "idle"

\* C25: with only strap edges and irq_handler_eic running, whenever no
\* EXTINT0 interrupt is pending or running after an edge, extIntfEnabled is
\* the strap level (high: enabled, low: disabled); an edge between the
\* handler's pin read and its flag clear is not lost.
C25_FlagFollowsStrap ==
    (extLast = "none" /\ extPc = "idle" /\ strapEdges > 0 /\ EicQuiescent)
        => (extIntfEnabled <=> strap = 1)

C27_BusyFlagClears ==
    /\ uartInUse ~> ~uartInUse
    /\ (uartPc \in {"putc_inuse", "putc_dre"})
          ~> (uartPc \in {"idle", "puts_loop"})

\* C27 in finite-run form: while the main program is outside the driver and
\* uartInUse is true, a block is in flight, about to be fetched, or its
\* completion interrupt is pending.
C27_BusyHasCompletionComing ==
    (uartInUse /\ uartPc = "idle")
        => (dmaActive \/ dmaTcmpl \/ (chEnabled /\ descValid))

=============================================================================
